------------------------------ MODULE Conflicts ------------------------------
(***************************************************************************)
(* What the vault says when beliefs disagree: the contradiction check that *)
(* runs after a write, the flags on distillations whose sources died, the  *)
(* audit and the rescan that look for what the events missed, and the      *)
(* queue where a person resolves or dismisses them.                        *)
(*                                                                         *)
(* A write of a memory (commit and row, taken apart in module Memory) is   *)
(* one step here; the hook that follows it is another, without a lock and  *)
(* best effort, so any host may run in between and a death loses it.  An   *)
(* operation on a canonical memory is the approved one.                    *)
(*                                                                         *)
(* All the memories are of one folded entity.  Memory ids are numbers, for *)
(* their order: a row names the lower id first.                            *)
(***************************************************************************)
EXTENDS Naturals, Sequences

CONSTANTS
  Hosts,        \* processes
  Memories,     \* memory ids, a set of numbers
  Texts,        \* what a note may say: a fact and a claim
  NoNote,       \* no file
  NoRow,        \* no row in the journal
  NoMem,        \* no memory
  Worlds        \* what a behaviour starts with, and its bounds

ASSUME MemoriesAssumption ==
  Memories \subseteq Nat /\ NoMem \notin Memories

FactTypes == {"date", "number", "string", "unparseable"}

ASSUME TextsAssumption ==
  \A t \in Texts : t.fact.type \in FactTypes /\ t.claim \in {"is", "is not", "silent"}

Live == {"working", "canonical"}
Dead == {"forgotten", "reverted", "retired"}
Citable == {"scratch", "working", "canonical", "retired"}
Statuses == Live \cup Dead \cup {"scratch"}

Notes == [status : Statuses, text : Texts, cites : SUBSET Memories]
MemoryRows == [status : Statuses, supersedes : Memories \cup {NoMem}]

ASSUME NothingAssumption == NoNote \notin Notes /\ NoRow \notin MemoryRows

(* A world: the hosts, memories and texts of a behaviour, which memories    *)
(* are live when it begins, whether it is calm (one host, which never       *)
(* dies) or only written (no promotion, undo, death or rebuild), and how    *)
(* many writes, promotions, undos, deaths of a host, rebuilds of the        *)
(* journal, closings by a person, audits and rescans there may be.          *)
ASSUME WorldsAssumption ==
  /\ Worlds \subseteq [hosts : SUBSET Hosts, memories : SUBSET Memories, texts : SUBSET Texts,
                      established : SUBSET Memories, calm : BOOLEAN, written : BOOLEAN,
                      write : Nat, promote : Nat, undo : Nat, crash : Nat, rebuild : Nat, close : Nat,
                      scan : Nat]
  /\ \A w \in Worlds : /\ w.established \subseteq w.memories
                       /\ w.calm => (\E h \in Hosts : w.hosts = {h}) /\ w.crash = 0
                       /\ w.written => {w.promote, w.undo, w.crash, w.rebuild} = {0}

VARIABLES
  fresh,      \* ids not given out yet
  notes,      \* the file of each memory: status, text and cited sources
  rows,       \* the memories table: status and supersedes
  relations,  \* the memory_relations table, pairs <<distillation, source>>
  conflicts,  \* the conflicts table: state of each unique key
  past,       \* what undo can bring back of each memory, newest first
  pc, job,    \* what each host does next, and its locals
  left        \* the world, and what remains of each of its bounds

vars == <<fresh, notes, rows, relations, conflicts, past, pc, job, left>>

Idle == [kind |-> "none", mem |-> NoMem, before |-> NoNote, after |-> NoNote,
         todo |-> {}, key |-> <<>>]

EmptyTable == [k \in {} |-> "open"]

(* Established memories agree with one another: the vault was checked.     *)
Init ==
  /\ left \in Worlds
  /\ \E t \in left.texts, s \in [left.established -> Live] :
       /\ notes = [m \in Memories |-> IF m \in left.established
                     THEN [status |-> s[m], text |-> t, cites |-> {}] ELSE NoNote]
       /\ rows = [m \in Memories |-> IF m \in left.established
                     THEN [status |-> s[m], supersedes |-> NoMem] ELSE NoRow]
  /\ fresh = left.memories \ left.established
  /\ relations = {}
  /\ conflicts = EmptyTable
  /\ past = [m \in Memories |-> <<>>]
  /\ pc = [h \in Hosts |-> "idle"]
  /\ job = [h \in Hosts |-> Idle]

AllIdle == \A h \in Hosts : pc[h] = "idle"

Spend(h, budget) ==
  /\ pc[h] = "idle"
  /\ left[budget] > 0
  /\ left' = [left EXCEPT ![budget] = @ - 1]

Goto(h, step, j) ==
  /\ pc' = [pc EXCEPT ![h] = step]
  /\ job' = [job EXCEPT ![h] = j]

Done(h) == Goto(h, "idle", Idle)

HasRow(m) == rows[m] # NoRow
Status(m) == IF HasRow(m) THEN rows[m].status ELSE "missing"

(* The note takes new contents and the row its status.                     *)
Land(m, n) ==
  /\ notes' = [notes EXCEPT ![m] = n]
  /\ rows' = [rows EXCEPT ![m].status = n.status]
  /\ past' = [past EXCEPT ![m] = <<notes[m]>> \o @]

-----------------------------------------------------------------------------
(* Detection.  Values are compared only if both were understood and are of *)
(* one type; a claim is contradicted by its negation.  The detail names    *)
(* the two values, the lower id's first.                                   *)

Detect(a, b) ==
  LET comparable == /\ "unparseable" \notin {a.fact.type, b.fact.type}
                    /\ a.fact.type = b.fact.type
  IN {[kind |-> "value-conflict", detail |-> <<a.fact.value, b.fact.value>>] :
        x \in IF comparable /\ a.fact.value # b.fact.value THEN {1} ELSE {}}
     \cup
     {[kind |-> "negation-conflict", detail |-> <<"contradicted by negation">>] :
        x \in IF {a.claim, b.claim} = {"is", "is not"} THEN {1} ELSE {}}

(* The supersedes chain of m, up and down, to the fixed point: the least   *)
(* set that holds m and whatever its members replace or are replaced by.   *)
Supersedes(a, b) == HasRow(a) /\ rows[a].supersedes = b

ChainClosed(S) == \A a, b \in Memories : Supersedes(a, b) => (a \in S <=> b \in S)

Lineage(m) == {x \in Memories : \A S \in SUBSET Memories : m \in S /\ ChainClosed(S) => x \in S}

(* Live peers; a canonical one is compared even within the lineage.        *)
ComparisonSet(m) ==
  {p \in Memories \ {m} : Status(p) \in Live /\ (p \in Lineage(m) => Status(p) = "canonical")}

Lower(a, b) == IF a < b THEN a ELSE b
Upper(a, b) == IF a < b THEN b ELSE a

(* The keys of the rows that a check of m inserts; a peer whose file cannot *)
(* be read is skipped.                                                     *)
Contradictions(m) ==
  UNION {{[kind |-> c.kind, lo |-> Lower(m, p), hi |-> Upper(m, p), detail |-> c.detail] :
            c \in Detect(notes[Lower(m, p)].text, notes[Upper(m, p)].text)} :
         p \in {q \in ComparisonSet(m) : notes[q] # NoNote}}

(* Mutant: a row that exists is opened again. *)
MutInserted(keys) ==
  [k \in DOMAIN conflicts \cup keys |-> IF k \in keys THEN "open" ELSE conflicts[k]]

(* insertConflict: ON CONFLICT of the key DO NOTHING.                      *)
Inserted(keys) ==
  [k \in DOMAIN conflicts \cup keys |-> IF k \in DOMAIN conflicts THEN conflicts[k] ELSE "open"]

(* The check of m finds nothing if its own note cannot be read.            *)
Checked(m) ==
  IF HasRow(m) /\ notes[m] # NoNote THEN Inserted(Contradictions(m)) ELSE conflicts

(* Staleness.  What identifies the content is the hash of the whole file.  *)
ContentId(m) == IF notes[m] = NoNote THEN <<"GONE">> ELSE <<notes[m].status, notes[m].text>>

StaleKey(d, s, status) ==
  [kind |-> "stale-source", lo |-> Lower(d, s), hi |-> Upper(d, s),
   detail |-> <<d, s, status, ContentId(s)>>]

(* Mutant: only a distillation with a higher id than its source. *)
MutCiting(s) == {e[1] : e \in {r \in relations : r[2] = s /\ r[2] < r[1]}}

Citing(s) == {e[1] : e \in {r \in relations : r[2] = s}}

Flagged(s, status) == Inserted({StaleKey(d, s, status) : d \in Citing(s)})

-----------------------------------------------------------------------------
(* Writes.                                                                 *)

(* remember: supersedes may name any memory, it is not validated.          *)
Remember(h, m, t, supersedes) ==
  LET n == [status |-> "scratch", text |-> t, cites |-> {}] IN
  /\ Spend(h, "write")
  /\ m \in fresh
  /\ fresh' = fresh \ {m}
  /\ notes' = [notes EXCEPT ![m] = n]
  /\ rows' = [rows EXCEPT ![m] = [status |-> "scratch", supersedes |-> supersedes]]
  /\ past' = [past EXCEPT ![m] = <<NoNote>>]
  /\ Goto(h, "check", [Idle EXCEPT !.kind = "remember", !.mem = m])
  /\ UNCHANGED <<relations, conflicts>>

(* distill validates its sources, then waits for the lock.                 *)
DistillBegin(h, m, t, sources) ==
  /\ Spend(h, "write")
  /\ m \in fresh
  /\ fresh' = fresh \ {m}
  /\ sources # {}
  /\ \A s \in sources : Status(s) \in Citable
  /\ Goto(h, "create", [Idle EXCEPT !.kind = "distill", !.mem = m, !.todo = sources,
                          !.after = [status |-> "scratch", text |-> t, cites |-> sources]])
  /\ UNCHANGED <<notes, rows, relations, conflicts, past>>

DistillCreate(h) ==
  LET m == job[h].mem IN
  /\ pc[h] = "create"
  /\ notes' = [notes EXCEPT ![m] = job[h].after]
  /\ rows' = [rows EXCEPT ![m] = [status |-> "scratch", supersedes |-> NoMem]]
  /\ past' = [past EXCEPT ![m] = <<NoNote>>]
  /\ Goto(h, "relate", job[h])
  /\ UNCHANGED <<fresh, relations, conflicts, left>>

(* Mutant: the loop ends after its first source. *)
MutDistillRelate(h) ==
  LET m == job[h].mem IN
  /\ pc[h] = "relate"
  /\ \E s \in job[h].todo :
       /\ relations' = relations \cup {<<m, s>>}
       /\ Goto(h, "check", [job[h] EXCEPT !.todo = {}])
  /\ UNCHANGED <<fresh, notes, rows, conflicts, past, left>>

DistillRelate(h) ==
  LET m == job[h].mem IN
  /\ pc[h] = "relate"
  /\ \/ \E s \in job[h].todo :
          /\ relations' = relations \cup {<<m, s>>}
          /\ Goto(h, "relate", [job[h] EXCEPT !.todo = @ \ {s}])
     \/ /\ job[h].todo = {}
        /\ Goto(h, "check", job[h])
        /\ UNCHANGED relations
  /\ UNCHANGED <<fresh, notes, rows, conflicts, past, left>>

(* revise, or the approval of one: the hash it carries was taken before.   *)
ReviseBegin(h, m, t) ==
  /\ Spend(h, "write")
  /\ HasRow(m) /\ notes[m] # NoNote
  /\ notes[m].text # t
  /\ Goto(h, "patch", [Idle EXCEPT !.kind = "revise", !.mem = m, !.before = notes[m],
                         !.after = [notes[m] EXCEPT !.text = t]])
  /\ UNCHANGED <<fresh, notes, rows, relations, conflicts, past>>

RevisePatch(h) ==
  LET m == job[h].mem IN
  /\ pc[h] = "patch"
  /\ \/ /\ notes[m] = job[h].before
        /\ notes' = [notes EXCEPT ![m] = job[h].after]
        /\ past' = [past EXCEPT ![m] = <<notes[m]>> \o @]
        /\ Goto(h, "check", job[h])
     \/ /\ notes[m] # job[h].before
        /\ Done(h)
        /\ UNCHANGED <<fresh, notes, past>>
  /\ UNCHANGED <<fresh, rows, relations, conflicts, left>>

(* Mutant: the check looks only at the memories it does not know of yet. *)
MutCheck(h) ==
  LET m == job[h].mem IN
  /\ pc[h] = "check"
  /\ conflicts' = IF job[h].kind = "revise" THEN conflicts ELSE Checked(m)
  /\ IF job[h].kind = "revise" THEN Goto(h, "stale", job[h]) ELSE Done(h)
  /\ UNCHANGED <<fresh, notes, rows, relations, past, left>>

(* The hook after a write.                                                 *)
Check(h) ==
  LET m == job[h].mem IN
  /\ pc[h] = "check"
  /\ conflicts' = Checked(m)
  /\ IF job[h].kind = "revise" THEN Goto(h, "stale", job[h]) ELSE Done(h)
  /\ UNCHANGED <<fresh, notes, rows, relations, past, left>>

(* A revise that changed a fact flags the distillations that cite it.      *)
CheckSourceStaleness(h) ==
  LET m == job[h].mem
      changed == notes[m] # NoNote /\ notes[m].text.fact # job[h].before.text.fact IN
  /\ pc[h] = "stale"
  /\ conflicts' = IF changed THEN Flagged(m, Status(m)) ELSE conflicts
  /\ Done(h)
  /\ UNCHANGED <<fresh, notes, rows, relations, past, left>>

(* No hook follows a promotion.                                            *)
Promote(h, m) ==
  /\ Spend(h, "promote")
  /\ Status(m) \in {"scratch", "working"} /\ notes[m] # NoNote
  /\ Land(m, [notes[m] EXCEPT !.status =
                IF Status(m) = "scratch" THEN "working" ELSE "canonical"])
  /\ UNCHANGED <<fresh, relations, conflicts, pc, job>>

Retire(h, m) ==
  /\ Spend(h, "write")
  /\ Status(m) \in Live /\ notes[m] # NoNote
  /\ Land(m, [notes[m] EXCEPT !.status = "retired"])
  /\ Goto(h, "flag", [Idle EXCEPT !.kind = "retired", !.mem = m])
  /\ UNCHANGED <<fresh, relations, conflicts>>

(* The undo of a forget is in module Memory.                               *)
Forget(h, m) ==
  /\ Spend(h, "write")
  /\ HasRow(m) /\ Status(m) \notin {"forgotten", "reverted"} /\ notes[m] # NoNote
  /\ notes' = [notes EXCEPT ![m].status = "forgotten"]
  /\ rows' = [rows EXCEPT ![m].status = "forgotten"]
  /\ past' = [past EXCEPT ![m] = <<>>]
  /\ Goto(h, "flag", [Idle EXCEPT !.kind = "forgotten", !.mem = m])
  /\ UNCHANGED <<fresh, relations, conflicts>>

(* Nothing is flagged if the note cannot be hashed.                        *)
FlagCitingDistillations(h) ==
  LET m == job[h].mem IN
  /\ pc[h] = "flag"
  /\ conflicts' = IF notes[m] = NoNote THEN conflicts ELSE Flagged(m, job[h].kind)
  /\ Done(h)
  /\ UNCHANGED <<fresh, notes, rows, relations, past, left>>

(* Undo of the last change: no hook; the edges of a note that is gone go.  *)
Undo(h, m) ==
  LET gone == Head(past[m]) = NoNote IN
  /\ Spend(h, "undo")
  /\ past[m] # <<>>
  /\ notes' = [notes EXCEPT ![m] = Head(past[m])]
  /\ past' = [past EXCEPT ![m] = Tail(@)]
  /\ rows' = [rows EXCEPT ![m].status = IF gone THEN "reverted" ELSE Head(past[m]).status]
  /\ relations' = IF gone THEN {e \in relations : e[1] # m} ELSE relations
  /\ UNCHANGED <<fresh, conflicts, pc, job>>

-----------------------------------------------------------------------------
(* The queue: a row is read, its state looked at, then written.            *)

TransitionRead(h, k, next) ==
  /\ Spend(h, "close")
  /\ conflicts[k] = "open"
  /\ Goto(h, next, [Idle EXCEPT !.kind = "close", !.key = <<k>>])
  /\ UNCHANGED <<fresh, notes, rows, relations, conflicts, past>>

TransitionWrite(h) ==
  LET k == Head(job[h].key) IN
  /\ pc[h] \in {"resolved", "dismissed"}
  /\ conflicts' = [c \in DOMAIN conflicts |-> IF c = k THEN pc[h] ELSE conflicts[c]]
  /\ Done(h)
  /\ UNCHANGED <<fresh, notes, rows, relations, past, left>>

(* What the queue shows of a row: both sides live, or, for a stale source, *)
(* the distillation live and the source not.                               *)
Showable(k) ==
  IF k.kind # "stale-source"
  THEN \A m \in {k.lo, k.hi} : HasRow(m) /\ Status(m) \notin Dead
  ELSE LET pair == IF <<k.lo, k.hi>> \in relations THEN <<k.lo, k.hi>> ELSE <<k.hi, k.lo>> IN
       /\ pair \in relations
       /\ HasRow(pair[1]) /\ Status(pair[1]) \notin Dead
       /\ Status(pair[2]) \in Dead \cup {"missing"}

-----------------------------------------------------------------------------
(* Scans of the whole journal, one edge or memory at a time.               *)

AuditStart(h) ==
  /\ Spend(h, "scan")
  /\ Goto(h, "audit", [Idle EXCEPT !.kind = "audit", !.todo = relations])
  /\ UNCHANGED <<fresh, notes, rows, relations, conflicts, past>>

(* Mutant: a source without a row is taken for a live one. *)
MutAuditEdge(h) ==
  /\ pc[h] = "audit"
  /\ \/ \E e \in job[h].todo :
          /\ conflicts' = IF Status(e[1]) \notin Dead \cup {"missing"} /\ Status(e[2]) \in Dead
                          THEN Inserted({StaleKey(e[1], e[2], Status(e[2]))}) ELSE conflicts
          /\ Goto(h, "audit", [job[h] EXCEPT !.todo = @ \ {e}])
     \/ /\ job[h].todo = {}
        /\ Done(h)
        /\ UNCHANGED conflicts
  /\ UNCHANGED <<fresh, notes, rows, relations, past, left>>

AuditEdge(h) ==
  /\ pc[h] = "audit"
  /\ \/ \E e \in job[h].todo :
          /\ conflicts' = IF /\ Status(e[1]) \notin Dead \cup {"missing"}
                             /\ Status(e[2]) \in Dead \cup {"missing"}
                          THEN Inserted({StaleKey(e[1], e[2], Status(e[2]))}) ELSE conflicts
          /\ Goto(h, "audit", [job[h] EXCEPT !.todo = @ \ {e}])
     \/ /\ job[h].todo = {}
        /\ Done(h)
        /\ UNCHANGED conflicts
  /\ UNCHANGED <<fresh, notes, rows, relations, past, left>>

RescanStart(h) ==
  /\ Spend(h, "scan")
  /\ Goto(h, "rescan", [Idle EXCEPT !.kind = "rescan",
                          !.todo = {m \in Memories : HasRow(m) /\ Status(m) \notin Dead}])
  /\ UNCHANGED <<fresh, notes, rows, relations, conflicts, past>>

RescanMemory(h) ==
  /\ pc[h] = "rescan"
  /\ \/ \E m \in job[h].todo :
          /\ conflicts' = Checked(m)
          /\ Goto(h, "rescan", [job[h] EXCEPT !.todo = @ \ {m}])
     \/ /\ job[h].todo = {}
        /\ Done(h)
        /\ UNCHANGED conflicts
  /\ UNCHANGED <<fresh, notes, rows, relations, past, left>>

(* The journal is lost and rebuilt from the vault (module Memory has the   *)
(* steps): rows and edges come back from the notes, conflicts do not, and  *)
(* nothing links the commits to memories.                                  *)
Rebuild ==
  /\ AllIdle
  /\ left.rebuild > 0
  /\ left' = [left EXCEPT !.rebuild = @ - 1]
  /\ rows' = [m \in Memories |-> IF notes[m] = NoNote THEN NoRow
               ELSE [status |-> notes[m].status, supersedes |-> rows[m].supersedes]]
  /\ relations' = UNION {{m} \X notes[m].cites : m \in {x \in Memories : notes[x] # NoNote}}
  /\ conflicts' = EmptyTable
  /\ past' = [m \in Memories |-> <<>>]
  /\ UNCHANGED <<fresh, notes, pc, job>>

Crash(h) ==
  /\ pc[h] # "idle"
  /\ left.crash > 0
  /\ left' = [left EXCEPT !.crash = @ - 1]
  /\ Done(h)
  /\ UNCHANGED <<fresh, notes, rows, relations, conflicts, past>>

-----------------------------------------------------------------------------
Step(h) ==
  \/ DistillCreate(h) \/ DistillRelate(h) \/ RevisePatch(h) \/ Check(h)
  \/ CheckSourceStaleness(h) \/ FlagCitingDistillations(h) \/ TransitionWrite(h)
  \/ AuditEdge(h) \/ RescanMemory(h)

Request(h) ==
  \/ \E m \in left.memories, t \in left.texts, s \in left.memories \cup {NoMem} : Remember(h, m, t, s)
  \/ \E m \in left.memories, t \in left.texts, S \in SUBSET left.memories : DistillBegin(h, m, t, S)
  \/ \E m \in left.memories, t \in left.texts : ReviseBegin(h, m, t)
  \/ \E m \in left.memories : Promote(h, m) \/ Retire(h, m) \/ Forget(h, m) \/ Undo(h, m)
  \/ \E k \in DOMAIN conflicts, next \in {"resolved", "dismissed"} : TransitionRead(h, k, next)
  \/ AuditStart(h) \/ RescanStart(h)

Next ==
  \/ \E h \in left.hosts : Request(h) \/ Step(h) \/ Crash(h)
  \/ Rebuild

Spec == Init /\ [][Next]_vars
=============================================================================
