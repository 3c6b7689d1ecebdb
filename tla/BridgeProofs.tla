---------------------------- MODULE BridgeProofs ----------------------------
(***************************************************************************)
(* Proofs about serve and its plugin, for any number of processes, ports,  *)
(* gestures and items: what a click does to the vault, who may make a      *)
(* handler work, and which bridge the discovery file names.                *)
(***************************************************************************)
EXTENDS BridgeProperties, FiniteSetTheorems, TLAPS

(* Every token was minted by a process that has started.                   *)
Started == {s \in Servers : srv[s].step # "off"}
MintInv == minted <= Cardinality(Started)

LeftInv ==
  left \in [servers : SUBSET Servers, ports : SUBSET Ports, tasks : SUBSET Tasks,
            items : SUBSET Items, serial : BOOLEAN, crash : Nat, reuse : Nat,
            gestures : Nat, timeouts : Nat, edits : Nat]

(* Who listens does so on a port.                                          *)
PortInv == \A s \in Servers : Listening(s) => srv[s].port \in Ports

TypeInv == TypeOK /\ MintInv /\ LeftInv /\ PortInv

(* A request that reached a bridge reached one that had started; past the  *)
(* guard it carries the token of that bridge, for good.                    *)
Held(r) == r.status \in {"loaded", "applied"}
Reached(r) == Held(r) \/ r.status = "sent" \/ r.answer # "none"

ReqInv ==
  \A t \in Tasks, k \in {1, 2} :
    LET r == reqs[t][k] IN
    /\ Reached(r) => r.server \in Servers
    /\ r.server \in Servers => srv[r.server].step # "off"
    /\ Held(r) => r.op = "approve" /\ KindOf[r.item] \in {"create", "edit"}

(* What an item's row says of what the vault took.                         *)
LandInv ==
  \A i \in Items :
    /\ landed[i] <= 1
    /\ item[i] = "pending" => KindOf[i] \in {"create", "edit"}
    /\ item[i] = "applied" => KindOf[i] = "txn" /\ landed[i] = 0

(* Where serves are started one at a time, who has published is who the    *)
(* file names, nobody else is on the way to publishing, and who is has the *)
(* token of the file that is there.                                        *)
Published(s) == srv[s].step \in {"serving", "closing", "unlinking"}
Coming(s) == srv[s].step \in {"starting", "listening"}

PublishInv ==
  left.serial =>
    \A s \in Servers :
      /\ Published(s) => disc # NoFile /\ disc.pid = s
      /\ Coming(s) => \A o \in Servers \ {s} : ~Coming(o) /\ ~Published(o)
      /\ Coming(s) /\ disc # NoFile => srv[s].rotated \/ srv[s].token = disc.token

Inv == TypeInv /\ ReqInv /\ RevokedRefused /\ LandInv /\ PublishInv

-----------------------------------------------------------------------------
(* What the helpers return.                                                *)

LEMMA NoRequestType == NoRequest \in RequestType /\ NoRequest.op = "list"
BY FS_CardinalityType, BridgeAssumption
   DEF NoRequest, RequestType, Tokens, Ops, Subjects, Views, Answers

LEMMA NoTaskType == NoTask \in TaskType /\ NoTask.pc = "idle" /\ NoTask.op = "list"
BY FS_CardinalityType, BridgeAssumption
   DEF NoTask, TaskType, NoClient, Clients, Tokens, Ops, Subjects, Views, Places

(* A request is sent to a bridge that listens, or to nobody.               *)
LEMMA SentType ==
  ASSUME TypeOK, NEW client \in Clients, NEW op \in Ops, NEW i \in Subjects
  PROVE  LET r == Sent(client, op, i) IN
         /\ r \in RequestType
         /\ r.op = op /\ r.item = i /\ r.answer = "none"
         /\ \/ r.status = "gone" /\ r.server = NoServer
            \/ r.status = "sent" /\ r.server \in Servers /\ Listening(r.server)
<1> DEFINE there == {s \in Servers : Listening(s) /\ srv[s].port = client.port}
<1>1. there # {} => (CHOOSE s \in there : TRUE) \in there
  OBVIOUS
<1>2. client.token \in Tokens
  BY DEF Clients
<1> DEFINE c == CHOOSE s \in there : TRUE
<1> HIDE DEF c
<1>3. Sent(client, op, i) =
        [status |-> IF there = {} THEN "gone" ELSE "sent",
         server |-> IF there = {} THEN NoServer ELSE c, token |-> client.token, op |-> op,
         item |-> i, answer |-> "none", rows |-> {}]
  <2>1. Sent(client, op, i) =
          [NoRequest EXCEPT !.status = IF there = {} THEN "gone" ELSE "sent",
                            !.server = IF there = {} THEN NoServer ELSE c,
                            !.token = client.token, !.op = op, !.item = i]
    BY DEF Sent, c
  <2> HIDE DEF there
  <2> QED
    BY <2>1 DEF NoRequest
<1>4. there # {} => c \in Servers /\ Listening(c)
  BY <1>1 DEF c
<1> HIDE DEF there
<1> QED
  BY <1>2, <1>3, <1>4 DEF RequestType, Answers

LEMMA Initial == Init => Inv
<1> SUFFICES ASSUME Init PROVE Inv
  OBVIOUS
<1> USE BridgeAssumption, WorldsAssumption, NoRequestType, NoTaskType DEF Init
<1>1. TypeOK
  <2>1. 0 \in Tokens
    BY FS_CardinalityType DEF Tokens
  <2>2. srv \in [Servers -> [step : {"off"}, port : {0}, token : {0}, rotated : {FALSE}]]
    BY DEF Off, ServerType
  <2>3. item \in [Items -> {"pending", "applied", "open"}]
    BY DEF Open, Kinds
  <2>4. view \in [Places -> LeafType]
    BY DEF LeafType, Places, Views, Subjects, Answers
  <2>5. task \in [Tasks -> TaskType] /\ reqs \in [Tasks -> [{1, 2} -> RequestType]]
    OBVIOUS
  <2> QED
    BY <2>1, <2>2, <2>3, <2>4, <2>5 DEF TypeOK, ServerType, ItemStates
<1>2. MintInv
  BY FS_Subset, FS_CardinalityType DEF MintInv, Started
<1>3. LeftInv
  BY DEF LeftInv
<1>4. ReqInv /\ RevokedRefused
  BY DEF ReqInv, RevokedRefused, Reached, Held, NoRequest
<1>5. LandInv
  BY DEF LandInv, Open, Kinds
<1>6. PublishInv
  BY DEF PublishInv, Published, Coming, Off
<1>7. PortInv
  BY DEF PortInv, Listening, Off
<1> QED
  BY <1>1, <1>2, <1>3, <1>4, <1>5, <1>6, <1>7 DEF Inv, TypeInv

-----------------------------------------------------------------------------
(* Types.                                                                  *)

LEMMA SpendLeft ==
  ASSUME LeftInv, NEW b \in {"crash", "reuse", "gestures", "timeouts", "edits"}, Spend(b)
  PROVE  /\ LeftInv'
         /\ left'.serial = left.serial
BY DEF LeftInv, Spend

(* A step of serve that starts no process mints nothing.                   *)
LEMMA MintKept ==
  ASSUME TypeOK, MintInv, minted' = minted,
         \A s \in Servers : srv[s].step # "off" => srv'[s].step # "off"
  PROVE  MintInv'
<1>1. IsFiniteSet(Started') /\ Started \subseteq Started'
  BY FS_Subset, BridgeAssumption DEF Started
<1>2. Cardinality(Started) <= Cardinality(Started')
  BY <1>1, FS_Subset
<1>3. Cardinality(Started) \in Nat /\ Cardinality(Started') \in Nat /\ minted \in Nat
  BY <1>1, FS_Subset, FS_CardinalityType, BridgeAssumption DEF TypeOK, Tokens
<1> QED
  BY <1>2, <1>3 DEF MintInv

LEMMA MintStart ==
  ASSUME TypeOK, MintInv, NEW s \in Servers, minted' \in {minted, minted + 1},
         srv[s].step = "off", NEW f, srv' = [srv EXCEPT ![s] = f], f.step # "off"
  PROVE  MintInv' /\ minted' \in Tokens
<1>1. Started' = Started \cup {s} /\ s \notin Started
  BY DEF TypeOK, Started
<1>2. IsFiniteSet(Started) /\ IsFiniteSet(Started') /\ Started' \subseteq Servers
  BY <1>1, FS_Subset, FS_AddElement, BridgeAssumption DEF Started
<1>3. Cardinality(Started') = Cardinality(Started) + 1
  BY <1>1, <1>2, FS_AddElement
<1>4. Cardinality(Started') <= Cardinality(Servers)
  BY <1>2, FS_Subset, BridgeAssumption
<1>5. /\ Cardinality(Started) \in Nat /\ Cardinality(Servers) \in Nat /\ minted \in Nat
  BY <1>2, FS_CardinalityType, BridgeAssumption DEF TypeOK, Tokens
<1> QED
  BY <1>3, <1>4, <1>5 DEF MintInv, Tokens

LEMMA ServeTypes ==
  ASSUME TypeInv, NEW s \in Servers, ServeStep(s) \/ Crash(s) \/ PidTaken(s)
  PROVE  TypeInv'
<1> USE DEF TypeInv, serverVars, vaultVars, pluginVars
<1>1. ASSUME NEW rotate \in BOOLEAN, ServeStart(s, rotate)
      PROVE  TypeInv'
  <2> DEFINE heir == disc # NoFile /\ ~rotate
             incumbent == IF disc = NoFile THEN FALSE ELSE isPidAlive(disc.pid)
             f == IF incumbent THEN [Off EXCEPT !.step = "dead"]
                  ELSE [Off EXCEPT !.step = "starting", !.rotated = rotate,
                                   !.token = IF heir THEN disc.token ELSE minted']
  <2>1. srv' = [srv EXCEPT ![s] = f] /\ f.step # "off"
    BY <1>1 DEF ServeStart, Off
  <2>2. minted' \in {minted, minted + 1} /\ srv[s].step = "off"
    BY <1>1 DEF ServeStart
  <2>3. MintInv' /\ minted' \in Tokens
    BY <2>1, <2>2, MintStart
  <2>4. 0 \in Tokens
    BY FS_CardinalityType, BridgeAssumption DEF Tokens
  <2>5. f \in ServerType /\ ~(f.step \in {"listening", "serving"})
    BY <2>3, <2>4 DEF TypeOK, Off, ServerType
  <2> HIDE DEF f
  <2>6. srv' \in [Servers -> ServerType] /\ PortInv'
    BY <2>1, <2>5 DEF TypeOK, PortInv, Listening
  <2> QED
    BY <1>1, <2>3, <2>6 DEF ServeStart, TypeOK, LeftInv
<1>2. ASSUME NEW p \in left.ports, Listen(s, p)
      PROVE  TypeInv'
  <2>1. p \in Ports
    BY <1>2 DEF LeftInv
  <2>2. item' \in [Items -> ItemStates]
    BY <1>2 DEF Listen, TypeOK, ItemStates
  <2>3. srv' \in [Servers -> ServerType] /\ PortInv'
    <3>1. PICK q \in {"dead", "listening"} :
            srv' = [srv EXCEPT ![s].step = q, ![s].port = p]
      BY <1>2 DEF Listen
    <3> QED
      BY <2>1, <3>1, ZenonT(30) DEF TypeOK, ServerType, PortInv, Listening
  <2>4. MintInv'
    BY <1>2, MintKept DEF Listen, TypeOK, ServerType
  <2> QED
    BY <1>2, <2>2, <2>3, <2>4 DEF Listen, TypeOK, LeftInv
<1>3. CASE Publish(s)
  <2>1. srv' \in [Servers -> ServerType] /\ PortInv'
    BY <1>3 DEF Publish, TypeOK, ServerType, PortInv, Listening
  <2>2. disc' \in [port : Ports, token : Tokens, pid : Servers]
    BY <1>3 DEF Publish, TypeOK, ServerType, PortInv, Listening
  <2> QED
    BY <1>3, <2>1, <2>2, MintKept DEF Publish, TypeOK, LeftInv, ServerType
<1>4. CASE Stop(s)
  <2>1. srv' \in [Servers -> ServerType] /\ PortInv'
    BY <1>4 DEF Stop, TypeOK, ServerType, PortInv, Listening
  <2> QED
    BY <1>4, <2>1, MintKept DEF Stop, TypeOK, LeftInv, ServerType
<1>5. CASE ReadOwnFile(s)
  <2>1. srv' \in [Servers -> ServerType] /\ PortInv'
    BY <1>5 DEF ReadOwnFile, TypeOK, ServerType, PortInv, Listening
  <2> QED
    BY <1>5, <2>1, MintKept DEF ReadOwnFile, TypeOK, LeftInv, ServerType
<1>6. CASE Unlink(s)
  <2>1. srv' \in [Servers -> ServerType] /\ PortInv'
    BY <1>6 DEF Unlink, TypeOK, ServerType, PortInv, Listening
  <2> QED
    BY <1>6, <2>1, MintKept DEF Unlink, TypeOK, LeftInv, ServerType
<1>7. CASE Crash(s)
  <2>1. srv' \in [Servers -> ServerType] /\ PortInv'
    BY <1>7 DEF Crash, TypeOK, ServerType, PortInv, Listening
  <2>2. \A t \in Tasks, k \in {1, 2} :
          reqs'[t][k] = reqs[t][k] \/ reqs'[t][k] = [reqs[t][k] EXCEPT !.status = "gone"]
    BY <1>7 DEF Crash
  <2>3. \A r \in RequestType : LET g == [r EXCEPT !.status = "gone"] IN
          g \in RequestType /\ g.op = r.op /\ g.item = r.item
    BY DEF RequestType
  <2>4. \A t \in Tasks, k \in {1, 2} :
          /\ reqs'[t][k] \in RequestType
          /\ reqs'[t][k].op = reqs[t][k].op /\ reqs'[t][k].item = reqs[t][k].item
    <3> TAKE t \in Tasks, k \in {1, 2}
    <3>1. reqs[t][k] \in RequestType
      BY DEF TypeOK
    <3> HIDE DEF TypeInv
    <3> QED
      BY <2>2, <2>3, <3>1
  <2>5. reqs' \in [Tasks -> [{1, 2} -> RequestType]]
    BY <1>7, <2>4 DEF Crash
  <2>6. TypeOK'
    <3>1. UNCHANGED <<disc, minted, taken, item, landed, moved, view, task>>
      BY <1>7 DEF Crash, vaultVars, pluginVars
    <3>2. \A t \in Tasks, k \in {1, 2} : reqs'[t][k].op # "list" => reqs'[t][k].item \in Items
      BY <2>4 DEF TypeOK
    <3>3. /\ disc' \in [port : Ports, token : Tokens, pid : Servers] \cup {NoFile}
          /\ minted' \in Tokens /\ taken' \subseteq Servers /\ item' \in [Items -> ItemStates]
          /\ landed' \in [Items -> Nat] /\ moved' \subseteq Items
          /\ view' \in [Places -> LeafType] /\ task' \in [Tasks -> TaskType]
      BY <3>1 DEF TypeOK
    <3>4. \A t \in Tasks : /\ task'[t].pc # "idle" => task'[t].tries # 0
                           /\ task'[t].op # "list" => task'[t].item \in Items
      BY <3>1 DEF TypeOK
    <3> HIDE DEF TypeInv
    <3> QED
      BY <2>1, <2>5, <3>2, <3>3, <3>4 DEF TypeOK
  <2>7. MintInv'
    BY <1>7, MintKept DEF Crash, TypeOK, ServerType
  <2> QED
    BY <1>7, <2>1, <2>6, <2>7, SpendLeft DEF Crash
<1>8. CASE PidTaken(s)
  BY <1>8, MintKept, SpendLeft DEF PidTaken, TypeOK, PortInv, Listening
<1> QED
  BY <1>1, <1>2, <1>3, <1>4, <1>5, <1>6, <1>7, <1>8 DEF ServeStep

(* A handler's step replaces one request.                                  *)
OnlyRequest(t, k, r) ==
  /\ reqs' \in [Tasks -> [{1, 2} -> RequestType]]
  /\ reqs'[t][k] = r
  /\ \A u \in Tasks, l \in {1, 2} : u # t \/ l # k => reqs'[u][l] = reqs[u][l]
  /\ r.server = reqs[t][k].server /\ r.token = reqs[t][k].token
  /\ r.op = reqs[t][k].op /\ r.item = reqs[t][k].item

LEMMA AnsweredRequest ==
  ASSUME TypeOK, NEW t \in Tasks, NEW k \in {1, 2}, NEW a \in Answers, Answered(t, k, a)
  PROVE  OnlyRequest(t, k, [reqs[t][k] EXCEPT !.status = "done", !.answer = a])
<1> DEFINE r == [reqs[t][k] EXCEPT !.status = "done", !.answer = a]
<1>0. reqs[t][k] \in RequestType
  BY DEF TypeOK
<1>1. r \in RequestType
  BY <1>0 DEF RequestType
<1>2. reqs' = [reqs EXCEPT ![t] = [@ EXCEPT ![k] = r]]
  BY DEF Answered, TypeOK
<1>3. /\ r.server = reqs[t][k].server /\ r.token = reqs[t][k].token
      /\ r.op = reqs[t][k].op /\ r.item = reqs[t][k].item
  BY DEF TypeOK, RequestType
<1> HIDE DEF r
<1>4. OnlyRequest(t, k, r)
  BY <1>1, <1>2, <1>3 DEF OnlyRequest, TypeOK
<1> QED
  BY <1>4 DEF r

LEMMA ListedRequest ==
  ASSUME TypeOK, LeftInv, NEW t \in Tasks, NEW k \in {1, 2}, ServeList(t, k)
  PROVE  OnlyRequest(t, k, [reqs[t][k] EXCEPT !.status = "done", !.answer = "ok",
                                              !.rows = Listed(reqs[t][k].item)])
<1> DEFINE rows == Listed(reqs[t][k].item)
           r == [reqs[t][k] EXCEPT !.status = "done", !.answer = "ok", !.rows = rows]
<1>1. rows \subseteq Items
  BY DEF Listed, LeftInv
<1>2. reqs' = [reqs EXCEPT ![t] = [@ EXCEPT ![k] = r]]
  BY DEF ServeList, TypeOK
<1> HIDE DEF rows
<1>3. r \in RequestType
  <2>1. reqs[t][k] \in RequestType
    BY DEF TypeOK
  <2> QED
    BY <1>1, <2>1 DEF RequestType, Answers
<1>4. /\ r.server = reqs[t][k].server /\ r.token = reqs[t][k].token
      /\ r.op = reqs[t][k].op /\ r.item = reqs[t][k].item
  BY DEF TypeOK, RequestType
<1> HIDE DEF r
<1>5. OnlyRequest(t, k, r)
  BY <1>2, <1>3, <1>4 DEF OnlyRequest, TypeOK
<1> QED
  BY <1>5 DEF r, rows

LEMMA MovedRequest ==
  ASSUME TypeOK, NEW t \in Tasks, NEW k \in {1, 2}, NEW status \in {"loaded", "applied"},
         reqs' = [reqs EXCEPT ![t][k].status = status]
  PROVE  OnlyRequest(t, k, [reqs[t][k] EXCEPT !.status = status])
<1> DEFINE r == [reqs[t][k] EXCEPT !.status = status]
<1>0. reqs[t][k] \in RequestType
  BY DEF TypeOK
<1>1. r \in RequestType
  BY <1>0 DEF RequestType
<1>2. reqs' = [reqs EXCEPT ![t] = [@ EXCEPT ![k] = r]]
  BY DEF TypeOK
<1>3. /\ r.server = reqs[t][k].server /\ r.token = reqs[t][k].token
      /\ r.op = reqs[t][k].op /\ r.item = reqs[t][k].item
  BY DEF TypeOK, RequestType
<1> HIDE DEF r
<1>4. OnlyRequest(t, k, r)
  BY <1>1, <1>2, <1>3, SMTT(30) DEF OnlyRequest, TypeOK
<1> QED
  BY <1>4 DEF r

(* What a handler does with its request: answer it, or hold it.  A handler *)
(* that does either with an answer of weight was let in by the guard.      *)
Weighty == {"ok", "error", "stale"}
Outcome(t, k, r) ==
  /\ OnlyRequest(t, k, r)
  /\ Reached(reqs[t][k]) /\ Reached(r)
  /\ \/ r.status = "done" /\ r.answer = "unauthorized" /\ reqs[t][k].status = "sent"
     \/ /\ r.answer \in Weighty \/ (r.answer = reqs[t][k].answer /\ Held(r))
        /\ Authorized(reqs[t][k]) \/ Held(reqs[t][k])
  /\ Held(r) => /\ r.op = "approve"
                /\ Held(reqs[t][k]) \/ item[r.item] = "pending"

LEMMA HandleOutcome ==
  ASSUME TypeOK, LeftInv, ReqInv, NEW t \in Tasks, NEW k \in {1, 2}, Handle(t, k)
  PROVE  /\ \E r : Outcome(t, k, r)
         /\ item' \in [Items -> ItemStates] /\ landed' \in [Items -> Nat]
         /\ UNCHANGED <<serverVars, moved, pluginVars, left>>
<1> DEFINE q == reqs[t][k]
<1>0. /\ q \in RequestType /\ (q.op # "list" => q.item \in Items)
      /\ Held(q) => q.op = "approve"
  BY DEF TypeOK, ReqInv
<1> USE DEF Outcome, Reached, Held, Weighty, Answers
<1>1. ASSUME NEW a \in Answers, Answered(t, k, a)
      PROVE  LET r == [q EXCEPT !.status = "done", !.answer = a] IN
             OnlyRequest(t, k, r) /\ r.status = "done" /\ r.answer = a
  BY <1>0, <1>1, AnsweredRequest DEF RequestType
<1>2. CASE Guard(t, k)
  BY <1>1, <1>2 DEF Guard, vaultVars, TypeOK
<1>3. CASE ServeList(t, k)
  <2>1. LET r == [q EXCEPT !.status = "done", !.answer = "ok", !.rows = Listed(q.item)] IN
        OnlyRequest(t, k, r) /\ r.status = "done" /\ r.answer = "ok"
    BY <1>0, <1>3, ListedRequest DEF RequestType
  <2> QED
    BY <1>3, <2>1 DEF ServeList, Admitted, vaultVars, TypeOK
<1>4. CASE ServeClose(t, k)
  <2>1. item' \in [Items -> ItemStates]
    BY <1>0, <1>4 DEF ServeClose, Admitted, TypeOK, ItemStates
  <2> QED
    BY <1>1, <1>4, <2>1 DEF ServeClose, Admitted, TypeOK
<1>5. CASE ServeUndo(t, k)
  <2>1. item' \in [Items -> ItemStates] /\ landed' \in [Items -> Nat]
    BY <1>0, <1>5 DEF ServeUndo, Admitted, TypeOK, ItemStates
  <2> QED
    BY <1>1, <1>5, <2>1 DEF ServeUndo, Admitted
<1>6. CASE LoadPending(t, k)
  <2>1. CASE item[q.item] = "pending"
    <3>1. LET r == [q EXCEPT !.status = "loaded"] IN
          OnlyRequest(t, k, r) /\ r.status = "loaded" /\ r.answer = q.answer
      BY <1>0, <1>6, <2>1, MovedRequest DEF LoadPending, RequestType
    <3> QED
      BY <1>6, <2>1, <3>1 DEF LoadPending, Admitted, OnlyRequest, vaultVars, TypeOK
  <2>2. CASE item[q.item] # "pending"
    BY <1>1, <1>6, <2>2 DEF LoadPending, Admitted, vaultVars, TypeOK
  <2> QED
    BY <2>1, <2>2
<1>7. CASE ApplyHeld(t, k)
  <2>0. /\ item' \in [Items -> ItemStates] /\ landed' \in [Items -> Nat]
        /\ UNCHANGED <<serverVars, moved, pluginVars, left>>
    BY <1>7, SMTT(30) DEF ApplyHeld, TypeOK, ItemStates
  <2>1. CASE q.status = "loaded" /\ reqs' = [reqs EXCEPT ![t][k].status = "applied"]
    <3>1. LET r == [q EXCEPT !.status = "applied"] IN
          OnlyRequest(t, k, r) /\ r.status = "applied" /\ r.answer = q.answer
      BY <1>0, <2>1, MovedRequest DEF RequestType
    <3> QED
      BY <1>0, <2>0, <2>1, <3>1, ZenonT(30) DEF OnlyRequest
  <2>2. CASE q.status = "loaded" /\ \E a \in {"stale", "error"} : Answered(t, k, a)
    BY <1>0, <1>1, <2>0, <2>2
  <2> QED
    BY <1>7, <2>1, <2>2 DEF ApplyHeld
<1>8. CASE MarkApproved(t, k)
  BY <1>1, <1>8 DEF MarkApproved, TypeOK, ItemStates
<1> QED
  BY <1>2, <1>3, <1>4, <1>5, <1>6, <1>7, <1>8 DEF Handle

(* What the plugin does with its requests: leave them, drop them, or send  *)
(* a new one.                                                              *)
New(r) ==
  /\ r \in RequestType
  /\ r.answer = "none"
  /\ \/ r.status \in {"none", "gone"} /\ r.server = NoServer
     \/ r.status = "sent" /\ r.server \in Servers /\ Listening(r.server)
  /\ r.op # "list" => r.item \in Items

Renewed(t) ==
  /\ reqs' \in [Tasks -> [{1, 2} -> RequestType]]
  /\ \A u \in Tasks \ {t} : reqs'[u] = reqs[u]
  /\ \A k \in {1, 2} : reqs'[t][k] = reqs[t][k] \/ New(reqs'[t][k])

Typed(j) == j \in TaskType /\ (j.pc # "idle" => j.tries # 0) /\ (j.op # "list" => j.item \in Items)
TasksTyped == task' \in [Tasks -> TaskType] /\ \A t \in Tasks : Typed(task'[t])

LEMMA NewRequests ==
  /\ New(NoRequest) /\ Typed(NoTask)
  /\ TypeOK => \A client \in Clients, op \in Ops, i \in Subjects :
       (op # "list" => i \in Items) => New(Sent(client, op, i))
<1>1. New(NoRequest) /\ Typed(NoTask)
  BY NoRequestType, NoTaskType DEF New, NoRequest, Typed
<1>2. ASSUME TypeOK, NEW client \in Clients, NEW op \in Ops, NEW i \in Subjects,
             op # "list" => i \in Items
      PROVE  New(Sent(client, op, i))
  BY <1>2, SentType DEF New
<1> QED
  BY <1>1, <1>2

LEMMA TaskFields ==
  \A j \in TaskType :
    /\ \A x \in {"list", "act"} : [j EXCEPT !.pc = x] \in TaskType
    /\ \A x \in Places : [j EXCEPT !.place = x] \in TaskType
    /\ \A x \in Views : [j EXCEPT !.tab = x] \in TaskType
    /\ \A x \in Ops : [j EXCEPT !.op = x] \in TaskType
    /\ \A x \in Subjects : [j EXCEPT !.item = x] \in TaskType
    /\ \A x \in Clients : [j EXCEPT !.client = x] \in TaskType
    /\ \A x \in 0..2 : [j EXCEPT !.tries = x] \in TaskType
BY DEF TaskType

LEMMA DiscoveredClient ==
  ASSUME TypeOK, disc # NoFile
  PROVE  discover \in Clients
BY DEF discover, Clients, TypeOK

LEMMA BegunRequests ==
  ASSUME TypeOK, NEW t \in Tasks, NEW j, Typed(j), NEW r, New(r), Begun(t, j, r)
  PROVE  Renewed(t) /\ TasksTyped
<1>1. task' = [task EXCEPT ![t] = j] /\ j \in TaskType
  BY DEF Begun, Typed
<1>2. TasksTyped
  BY <1>1 DEF TypeOK, TasksTyped, Typed
<1> DEFINE pair == [k \in {1, 2} |-> IF k = 1 THEN r ELSE NoRequest]
<1>3. reqs' = [reqs EXCEPT ![t] = pair]
  BY DEF Begun
<1>4. pair \in [{1, 2} -> RequestType] /\ \A k \in {1, 2} : New(pair[k])
  BY NewRequests, NoRequestType DEF New
<1> HIDE DEF pair
<1>5. Renewed(t)
  BY <1>3, <1>4 DEF Renewed, TypeOK
<1> QED
  BY <1>2, <1>5

LEMMA RefreshedTypes ==
  ASSUME TypeOK, NEW t \in Tasks, NEW place \in Places, NEW tab \in Views,
         NEW notice \in [item : Subjects, what : Answers], Refreshed(t, place, tab, notice)
  PROVE  Renewed(t) /\ TasksTyped /\ view' \in [Places -> LeafType]
<1>0. view' \in [Places -> LeafType]
  <2>1. ASSUME NEW says \in {"loading", "not running"}
        PROVE  [tab |-> tab, rows |-> {}, doubled |-> FALSE, says |-> says, notice |-> notice]
                 \in LeafType
    BY DEF LeafType
  <2> QED
    BY <2>1 DEF Refreshed, TypeOK
<1>1. CASE disc = NoFile /\ Begun(t, NoTask, NoRequest)
  BY <1>0, <1>1, BegunRequests, NewRequests
<1>2. CASE disc # NoFile /\ Begun(t, [NoTask EXCEPT !.pc = "list", !.place = place, !.tab = tab,
                                      !.item = tab, !.client = discover, !.tries = 1],
                                  Sent(discover, "list", tab))
  <2> DEFINE j == [NoTask EXCEPT !.pc = "list", !.place = place, !.tab = tab,
                                 !.item = tab, !.client = discover, !.tries = 1]
  <2>1. discover \in Clients /\ tab \in Subjects
    BY <1>2, DiscoveredClient DEF Subjects
  <2>2. Typed(j)
    <3> DEFINE a == [NoTask EXCEPT !.pc = "list"]
               b == [a EXCEPT !.place = place]
               c == [b EXCEPT !.tab = tab]
               d == [c EXCEPT !.item = tab]
               e == [d EXCEPT !.client = discover]
    <3>1. 1 \in 0..2 /\ "list" \in {"list", "act"}
      OBVIOUS
    <3>2. a \in TaskType
      BY <3>1, NoTaskType, TaskFields
    <3>3. b \in TaskType
      BY <3>2, TaskFields
    <3>4. c \in TaskType
      BY <3>3, TaskFields
    <3>5. d \in TaskType
      BY <2>1, <3>4, TaskFields
    <3>6. e \in TaskType
      BY <2>1, <3>5, TaskFields
    <3>7. j \in TaskType
      BY <3>1, <3>6, TaskFields
    <3>8. j.tries # 0 /\ j.op = "list"
      BY DEF NoTask
    <3> QED
      BY <3>7, <3>8 DEF Typed
  <2>3. New(Sent(discover, "list", tab))
    BY <2>1, NewRequests DEF Ops
  <2> HIDE DEF j
  <2>4. Begun(t, j, Sent(discover, "list", tab))
    BY <1>2 DEF j
  <2> QED
    BY <1>0, <2>2, <2>3, <2>4, BegunRequests
<1> QED
  BY <1>1, <1>2 DEF Refreshed

LEMMA UnavailableTypes ==
  ASSUME TypeOK, NEW t \in Tasks, task[t].pc # "idle", Unavailable(t)
  PROVE  Renewed(t) /\ TasksTyped /\ view' \in [Places -> LeafType]
<1> DEFINE j == task[t]
<1>0. j \in TaskType /\ j.tries # 0 /\ (j.op # "list" => j.item \in Items)
  BY DEF TypeOK
<1>1. CASE j.tries = 1 /\ disc # NoFile
  <2>1. discover \in Clients
    BY <1>1, DiscoveredClient
  <2>2. task' = [task EXCEPT ![t] = [j EXCEPT !.tries = 2, !.client = discover]]
    BY <1>1 DEF Unavailable, TypeOK
  <2>3. Typed([j EXCEPT !.tries = 2, !.client = discover])
    <3> DEFINE a == [j EXCEPT !.tries = 2]
               b == [a EXCEPT !.client = discover]
    <3>1. 2 \in 0..2
      OBVIOUS
    <3>2. a \in TaskType
      BY <1>0, <3>1, TaskFields
    <3>3. b \in TaskType
      BY <2>1, <3>2, TaskFields
    <3>4. b.tries # 0 /\ b.op = j.op /\ b.item = j.item
      BY <1>0 DEF TaskType
    <3> QED
      BY <1>0, <3>3, <3>4 DEF Typed
  <2>4. TasksTyped
    BY <2>2, <2>3 DEF TasksTyped, TypeOK, Typed
  <2>5. New(Sent(discover, j.op, j.item))
    BY <1>0, <2>1, NewRequests DEF TaskType
  <2>6. reqs' = [reqs EXCEPT ![t] = [@ EXCEPT ![2] = Sent(discover, j.op, j.item)]]
    BY <1>1 DEF Unavailable, TypeOK
  <2>7. Renewed(t)
    <3> DEFINE r == Sent(discover, j.op, j.item)
    <3> HIDE DEF r
    <3>1. r \in RequestType /\ New(r) /\ reqs' = [reqs EXCEPT ![t] = [@ EXCEPT ![2] = r]]
      BY <2>5, <2>6 DEF r, New
    <3> QED
      BY <3>1 DEF Renewed, TypeOK
  <2>8. view' \in [Places -> LeafType]
    <3> DEFINE rows == {IF r.client = j.client THEN [r EXCEPT !.client = discover] ELSE r :
                          r \in view[j.place].rows}
    <3>1. view[j.place] \in LeafType /\ j.place \in Places
      BY <1>0 DEF TypeOK, TaskType
    <3>2. rows \subseteq [item : Items, client : Clients]
      <4>1. view[j.place].rows \subseteq [item : Items, client : Clients]
        BY <3>1 DEF LeafType
      <4>2. SUFFICES ASSUME NEW r \in view[j.place].rows
                     PROVE  (IF r.client = j.client THEN [r EXCEPT !.client = discover] ELSE r)
                              \in [item : Items, client : Clients]
        OBVIOUS
      <4>3. r \in [item : Items, client : Clients]
        BY <4>1
      <4> QED
        BY <2>1, <4>3
    <3>3. view' = [view EXCEPT ![j.place] = [@ EXCEPT !.rows = rows]]
      BY <1>1 DEF Unavailable, TypeOK
    <3> HIDE DEF rows
    <3>4. [view[j.place] EXCEPT !.rows = rows] \in LeafType
      BY <3>1, <3>2 DEF LeafType
    <3> QED
      BY <3>1, <3>3, <3>4 DEF TypeOK
  <2> QED
    BY <2>4, <2>7, <2>8
<1>2. CASE ~(j.tries = 1 /\ disc # NoFile)
  <2>1. task' = [task EXCEPT ![t] = NoTask] /\ UNCHANGED <<reqs, view>>
    BY <1>2 DEF Unavailable
  <2> QED
    BY <2>1, NewRequests DEF TasksTyped, Typed, Renewed, TypeOK
<1> QED
  BY <1>1, <1>2

(* Everything a step of the plugin does.                                   *)
Plugged(t) ==
  /\ Renewed(t) /\ TasksTyped /\ view' \in [Places -> LeafType]
  /\ LeftInv' /\ left'.serial = left.serial
  /\ UNCHANGED <<serverVars, vaultVars>>

LEMMA GestureStep ==
  ASSUME TypeInv, NEW t \in Tasks, Gesture(t)
  PROVE  Plugged(t)
<1> USE DEF TypeInv
<1>1. ASSUME NEW place \in Places, NEW tab \in Views, Refresh(t, place, tab)
      PROVE  Plugged(t)
  <2>1. view[place].notice \in [item : Subjects, what : Answers]
    BY DEF TypeOK, LeafType
  <2> QED
    BY <1>1, <2>1, RefreshedTypes, SpendLeft DEF Refresh, Plugged
<1>2. ASSUME NEW place \in Places, NEW row \in view[place].rows, NEW op \in Buttons(row.item),
             Click(t, place, row, op)
      PROVE  Plugged(t)
  <2> DEFINE a == [NoTask EXCEPT !.pc = "act"]
             b == [a EXCEPT !.place = place]
             c == [b EXCEPT !.op = op]
             d == [c EXCEPT !.item = row.item]
             e == [d EXCEPT !.client = row.client]
             j == [e EXCEPT !.tries = 1]
  <2>1. row.item \in Items /\ row.client \in Clients /\ row.item \in Subjects
    <3>1. view[place] \in LeafType
      BY DEF TypeOK
    <3>2. row \in [item : Items, client : Clients]
      BY <3>1 DEF LeafType
    <3> QED
      BY <3>2 DEF Subjects
  <2>2. op \in Ops /\ op # "list"
    BY DEF Buttons, Ops
  <2>3. 1 \in 0..2 /\ "act" \in {"list", "act"}
    OBVIOUS
  <2>4. a \in TaskType
    BY <2>3, NoTaskType, TaskFields
  <2>5. b \in TaskType
    BY <2>4, TaskFields
  <2>6. c \in TaskType
    BY <2>2, <2>5, TaskFields
  <2>7. d \in TaskType
    BY <2>1, <2>6, TaskFields
  <2>8. e \in TaskType
    BY <2>1, <2>7, TaskFields
  <2>9. j \in TaskType
    BY <2>3, <2>8, TaskFields
  <2>10. j.tries # 0 /\ j.item = row.item
    BY DEF NoTask
  <2>11. Typed(j)
    BY <2>1, <2>9, <2>10 DEF Typed
  <2>12. New(Sent(row.client, op, row.item))
    BY <2>1, <2>2, NewRequests
  <2>13. Begun(t, j, Sent(row.client, op, row.item))
    BY <1>2 DEF Click
  <2> HIDE DEF j
  <2>14. Renewed(t) /\ TasksTyped
    BY <2>11, <2>12, <2>13, BegunRequests
  <2> QED
    BY <1>2, <2>14, SpendLeft DEF Click, Plugged, TypeOK
<1> QED
  BY <1>1, <1>2 DEF Gesture

LEMMA ProceedStep ==
  ASSUME TypeInv, NEW t \in Tasks, Proceed(t) \/ TimedOut(t)
  PROVE  Plugged(t)
<1> USE DEF TypeInv
<1> DEFINE j == task[t]
<1>0. /\ j \in TaskType /\ j.place \in Places /\ j.tab \in Views /\ j.item \in Subjects
      /\ view[j.place] \in LeafType
      /\ j.pc # "idle" => j.tries \in {1, 2}
  BY DEF TypeOK, TaskType
<1>1. CASE Render(t)
  <2> DEFINE q == Current(t)
  <2>1. q \in RequestType
    BY <1>0, <1>1 DEF Render, Current, TypeOK
  <2>2. j.client \in Clients
    BY <1>0 DEF TaskType
  <2>3. view' \in [Places -> LeafType]
    <3> DEFINE old == view[j.place]
               more == [item : q.rows, client : {j.client}]
               says == IF q.answer = "ok" THEN "listed" ELSE "error"
               rows == old.rows \cup more
               doubled == old.doubled \/ \E r \in old.rows : r.item \in q.rows
    <3>1. more \subseteq [item : Items, client : Clients]
      BY <2>1, <2>2 DEF RequestType
    <3>2. rows \subseteq [item : Items, client : Clients]
      BY <1>0, <3>1 DEF LeafType
    <3>3. says \in {"closed", "loading", "listed", "error", "not running"} /\ doubled \in BOOLEAN
      OBVIOUS
    <3>4. view' = [view EXCEPT ![j.place] = [old EXCEPT !.says = says, !.rows = rows,
                                                        !.doubled = doubled]]
      BY <1>1 DEF Render
    <3> HIDE DEF rows, says, doubled, q
    <3>5. old \in LeafType
      BY <1>0
    <3> HIDE DEF old
    <3>6. [old EXCEPT !.says = says, !.rows = rows, !.doubled = doubled] \in LeafType
      BY <3>2, <3>3, <3>5 DEF LeafType
    <3> QED
      BY <3>4, <3>6 DEF TypeOK
  <2>4. TasksTyped
    BY <1>1, NewRequests DEF Render, TasksTyped, Typed, TypeOK
  <2>5. Renewed(t)
    <3>1. reqs' = [reqs EXCEPT ![t] = [@ EXCEPT ![j.tries] = NoRequest]]
      BY <1>1 DEF Render, TypeOK
    <3> QED
      BY <1>0, <3>1, NewRequests, NoRequestType DEF Renewed, TypeOK
  <2> QED
    BY <1>1, <2>3, <2>4, <2>5 DEF Render, Plugged, LeftInv
<1>2. CASE Notify(t)
  <2>1. Current(t) \in RequestType
    BY <1>0, <1>2 DEF Notify, Current, TypeOK
  <2>2. PICK notice \in [item : Subjects, what : Answers] :
          Refreshed(t, j.place, view[j.place].tab, notice)
    BY <1>0, <1>2, <2>1 DEF Notify, RequestType, Answers
  <2>3. view[j.place].tab \in Views
    BY <1>0 DEF LeafType
  <2> QED
    BY <1>0, <1>2, <2>2, <2>3, RefreshedTypes DEF Notify, Plugged, LeftInv
<1>3. CASE Disconnected(t)
  BY <1>3, UnavailableTypes DEF Disconnected, Plugged, LeftInv
<1>4. CASE TimedOut(t)
  BY <1>4, UnavailableTypes, SpendLeft DEF TimedOut, Plugged
<1> QED
  BY <1>1, <1>2, <1>3, <1>4 DEF Proceed

-----------------------------------------------------------------------------
(* The invariant.                                                          *)

LEMMA PluginTypes ==
  ASSUME TypeInv, NEW t \in Tasks, Plugged(t)
  PROVE  TypeInv'
<1> USE DEF TypeInv, Plugged, serverVars, vaultVars
<1>1. \A u \in Tasks, k \in {1, 2} : reqs'[u][k] = reqs[u][k] \/ New(reqs'[u][k])
  BY DEF Renewed
<1>2. \A u \in Tasks, k \in {1, 2} : reqs'[u][k].op # "list" => reqs'[u][k].item \in Items
  BY <1>1 DEF New, TypeOK
<1>3. TypeOK'
  BY <1>2 DEF TypeOK, Renewed, TasksTyped, Typed
<1> QED
  BY <1>3, MintKept DEF PortInv, Listening, TypeOK

LEMMA HandleTypes ==
  ASSUME TypeInv, ReqInv, NEW t \in Tasks, NEW k \in {1, 2}, Handle(t, k)
  PROVE  TypeInv'
<1> USE DEF TypeInv, serverVars, pluginVars
<1>1. PICK r : Outcome(t, k, r)
  BY HandleOutcome
<1>2. /\ item' \in [Items -> ItemStates] /\ landed' \in [Items -> Nat]
      /\ UNCHANGED <<serverVars, moved, pluginVars, left>>
  BY HandleOutcome
<1>3. \A u \in Tasks, l \in {1, 2} :
        reqs'[u][l].op = reqs[u][l].op /\ reqs'[u][l].item = reqs[u][l].item
  BY <1>1 DEF Outcome, OnlyRequest
<1>4. reqs' \in [Tasks -> [{1, 2} -> RequestType]]
  BY <1>1 DEF Outcome, OnlyRequest
<1>5. \A u \in Tasks, l \in {1, 2} : reqs'[u][l].op # "list" => reqs'[u][l].item \in Items
  BY <1>3 DEF TypeOK
<1>6. TypeOK'
  BY <1>2, <1>4, <1>5 DEF TypeOK
<1> QED
  BY <1>2, <1>6, MintKept DEF PortInv, Listening, TypeOK, LeftInv

(* A step that moves a note or nothing.                                    *)
LEMMA NoteMovesTypes ==
  ASSUME TypeInv, NEW i \in Items, NoteMoves(i)
  PROVE  TypeInv' /\ left'.serial = left.serial
<1> USE DEF TypeInv, serverVars, pluginVars
<1>1. TypeOK'
  BY DEF NoteMoves, TypeOK
<1> QED
  BY <1>1, MintKept, SpendLeft DEF NoteMoves, PortInv, Listening, TypeOK

(* No step changes the token of a process that has started.                *)
TokensStand ==
  \A s \in Servers : srv[s].step # "off" => srv'[s].step # "off" /\ srv'[s].token = srv[s].token

LEMMA ServeTokens ==
  ASSUME TypeOK, NEW s \in Servers, ServeStep(s) \/ Crash(s) \/ PidTaken(s)
  PROVE  TokensStand
<1> USE DEF TypeOK, ServerType, TokensStand
<1>1. ASSUME NEW rotate \in BOOLEAN, ServeStart(s, rotate)
      PROVE  TokensStand
  BY <1>1 DEF ServeStart
<1>2. ASSUME NEW p \in left.ports, Listen(s, p)
      PROVE  TokensStand
  <2>1. PICK q \in {"dead", "listening"} : srv' = [srv EXCEPT ![s].step = q, ![s].port = p]
    BY <1>2 DEF Listen
  <2> QED
    BY <2>1
<1> QED
  BY <1>1, <1>2 DEF ServeStep, Publish, Stop, ReadOwnFile, Unlink, Crash, PidTaken, serverVars

LEMMA RequestsStep ==
  ASSUME TypeInv, ReqInv, RevokedRefused, LandInv, [Next]_vars
  PROVE  ReqInv' /\ RevokedRefused'
<1> USE DEF TypeInv
<1>1. ASSUME NEW s \in Servers, ServeStep(s) \/ Crash(s) \/ PidTaken(s)
      PROVE  ReqInv' /\ RevokedRefused'
  <2>1. TokensStand
    BY <1>1, ServeTokens
  <2>2. \A t \in Tasks, k \in {1, 2} :
          reqs'[t][k] = reqs[t][k] \/ reqs'[t][k] = [reqs[t][k] EXCEPT !.status = "gone"]
    <3>1. CASE Crash(s)
      BY <3>1 DEF Crash
    <3>2. CASE ~Crash(s)
      <4>1. reqs' = reqs
        BY <1>1, <3>2 DEF ServeStep, ServeStart, Listen, Publish, Stop, ReadOwnFile, Unlink, PidTaken
      <4> QED
        BY <4>1
    <3> QED
      BY <3>1, <3>2
  <2> SUFFICES ASSUME NEW t \in Tasks, NEW k \in {1, 2}
               PROVE  LET r == reqs'[t][k] IN
                      /\ Reached(r) => r.server \in Servers
                      /\ r.server \in Servers => srv'[r.server].step # "off"
                      /\ Held(r) => r.op = "approve" /\ KindOf[r.item] \in {"create", "edit"}
                      /\ Held(r) \/ r.answer \in {"ok", "stale", "error"} => r.token = srv'[r.server].token
    BY DEF ReqInv, RevokedRefused, Held, Reached
  <2> DEFINE q == reqs[t][k]
             r == reqs'[t][k]
  <2>3. q \in RequestType
    BY DEF TypeOK
  <2>4. /\ r.server = q.server /\ r.token = q.token /\ r.op = q.op /\ r.item = q.item
        /\ r.answer = q.answer /\ (r.status = q.status \/ r.status = "gone")
    <3>1. r = q \/ r = [q EXCEPT !.status = "gone"]
      BY <2>2
    <3> QED
      BY <2>3, <3>1 DEF RequestType
  <2> QED
    BY <2>1, <2>4 DEF ReqInv, RevokedRefused, TokensStand, Held, Reached
<1>2. ASSUME NEW t \in Tasks, Plugged(t)
      PROVE  ReqInv' /\ RevokedRefused'
  <2>1. \A u \in Tasks, k \in {1, 2} : reqs'[u][k] = reqs[u][k] \/ New(reqs'[u][k])
    BY <1>2 DEF Plugged, Renewed
  <2>2. srv' = srv
    BY <1>2 DEF Plugged, serverVars
  <2>3. ASSUME NEW r, New(r)
        PROVE  ~Held(r) /\ r.answer = "none" /\ (Reached(r) => r.server \in Servers)
               /\ (r.server \in Servers => srv[r.server].step # "off")
    BY <2>3, BridgeAssumption DEF New, Reached, Held, Listening
  <2>4. ASSUME NEW u \in Tasks, NEW k \in {1, 2}
        PROVE  LET r == reqs'[u][k] IN
                 \/ r = reqs[u][k]
                 \/ ~Held(r) /\ r.answer = "none" /\ (Reached(r) => r.server \in Servers)
                    /\ (r.server \in Servers => srv[r.server].step # "off")
    BY <2>1, <2>3
  <2>5. ReqInv'
    BY <2>2, <2>4 DEF ReqInv, Held, Reached
  <2>6. RevokedRefused'
    BY <2>2, <2>4 DEF RevokedRefused, Held
  <2> QED
    BY <2>5, <2>6
<1>3. ASSUME NEW t \in Tasks, NEW k \in {1, 2}, Handle(t, k)
      PROVE  ReqInv' /\ RevokedRefused'
  <2>1. PICK r : Outcome(t, k, r)
    BY <1>3, HandleOutcome
  <2>2. srv' = srv
    BY <1>3, HandleOutcome DEF serverVars
  <2>3. reqs'[t][k] = r /\ r.server = reqs[t][k].server /\ r.token = reqs[t][k].token
    BY <2>1 DEF Outcome, OnlyRequest
  <2>4. r.server \in Servers /\ srv[r.server].step # "off"
    BY <2>1, <2>3 DEF Outcome, ReqInv
  <2>5. Held(r) => r.op = "approve" /\ KindOf[r.item] \in {"create", "edit"}
    <3>1. CASE Held(reqs[t][k])
      BY <2>1, <3>1 DEF Outcome, OnlyRequest, ReqInv
    <3>2. CASE Held(r) /\ item[r.item] = "pending"
      <4>1. r.op = "approve" /\ r.op = reqs[t][k].op /\ r.item = reqs[t][k].item
        BY <2>1, <3>2 DEF Outcome, OnlyRequest
      <4>2. r.item \in Items
        BY <4>1 DEF TypeOK
      <4> QED
        BY <3>2, <4>1, <4>2 DEF LandInv
    <3> QED
      BY <2>1, <3>1, <3>2 DEF Outcome
  <2>6. Held(r) \/ r.answer \in {"ok", "stale", "error"} => r.token = srv[r.server].token
    BY <2>1, <2>3 DEF Outcome, RevokedRefused, Held, Authorized
  <2>7. \A u \in Tasks, l \in {1, 2} : reqs'[u][l] = reqs[u][l] \/ reqs'[u][l] = r
    BY <2>1, <2>3 DEF Outcome, OnlyRequest
  <2> QED
    BY <2>2, <2>4, <2>5, <2>6, <2>7 DEF ReqInv, RevokedRefused, Held
<1>4. ASSUME NEW i \in Items, NoteMoves(i)
      PROVE  ReqInv' /\ RevokedRefused'
  BY <1>4 DEF NoteMoves, serverVars, ReqInv, RevokedRefused
<1>5. CASE UNCHANGED vars
  BY <1>5 DEF vars, ReqInv, RevokedRefused
<1> QED
  BY <1>1, <1>2, <1>3, <1>4, <1>5, GestureStep, ProceedStep DEF Next, LeftInv

LEMMA LandStep ==
  ASSUME TypeInv, ReqInv, LandInv, [Next]_vars
  PROVE  LandInv'
<1> USE DEF TypeInv, LandInv, vaultVars
<1>1. ASSUME NEW s \in Servers, ServeStep(s) \/ Crash(s) \/ PidTaken(s)
      PROVE  LandInv'
  <2>1. ASSUME NEW p \in left.ports, Listen(s, p)
        PROVE  LandInv'
    BY <2>1 DEF Listen, TypeOK
  <2>2. CASE Crash(s) \/ PidTaken(s)
    BY <2>2 DEF Crash, PidTaken
  <2> QED
    BY <1>1, <2>1, <2>2 DEF ServeStep, ServeStart, Publish, Stop, ReadOwnFile, Unlink
<1>2. ASSUME NEW t \in Tasks, Plugged(t)
      PROVE  LandInv'
  BY <1>2 DEF Plugged
<1>3. ASSUME NEW t \in Tasks, NEW k \in {1, 2}, Handle(t, k)
      PROVE  LandInv'
  <2> DEFINE q == reqs[t][k]
  <2>1. /\ q.op # "list" => q.item \in Items
        /\ Held(q) => q.op = "approve" /\ KindOf[q.item] \in {"create", "edit"}
    BY DEF TypeOK, ReqInv
  <2>2. CASE Guard(t, k) \/ ServeList(t, k) \/ LoadPending(t, k)
    BY <2>2 DEF Guard, ServeList, LoadPending
  <2>3. CASE ServeClose(t, k)
    <3>1. PICK state \in {"rejected", "resolved", "dismissed"} :
            item' = item \/ item' = [item EXCEPT ![q.item] = state]
      BY <2>3 DEF ServeClose
    <3>2. landed' = landed
      BY <2>3 DEF ServeClose
    <3> QED
      BY <3>1, <3>2 DEF TypeOK
  <2>4. CASE ServeUndo(t, k)
    <3>1. CASE /\ item[q.item] = "applied" /\ item' = [item EXCEPT ![q.item] = "reverted"]
               /\ landed' = [landed EXCEPT ![q.item] = @ + 1]
      <4>1. q.item \in Items
        BY <2>1, <2>4 DEF ServeUndo, Admitted
      <4>2. landed[q.item] = 0
        BY <3>1, <4>1
      <4> QED
        BY <3>1, <4>1, <4>2 DEF TypeOK
    <3>2. CASE UNCHANGED <<item, landed>>
      BY <3>2
    <3> QED
      BY <2>4, <3>1, <3>2 DEF ServeUndo
  <2>5. CASE ApplyHeld(t, k)
    <3>1. q.item \in Items /\ KindOf[q.item] \in {"create", "edit"}
      BY <2>1, <2>5 DEF ApplyHeld, Held
    <3>2. item[q.item] # "applied"
      BY <3>1
    <3>3. CASE landed[q.item] = 0 /\ landed' = [landed EXCEPT ![q.item] = @ + 1] /\ item' = item
      <4> SUFFICES ASSUME NEW i \in Items
                   PROVE  /\ landed'[i] <= 1
                          /\ item'[i] = "pending" => KindOf[i] \in {"create", "edit"}
                          /\ item'[i] = "applied" => KindOf[i] = "txn" /\ landed'[i] = 0
        OBVIOUS
      <4>1. CASE i = q.item
        BY <3>1, <3>2, <3>3, <4>1 DEF TypeOK
      <4>2. CASE i # q.item
        BY <3>3, <4>2 DEF TypeOK
      <4> QED
        BY <4>1, <4>2
    <3>4. CASE item' = [item EXCEPT ![q.item] = "stale"] /\ landed' = landed
      BY <3>4 DEF TypeOK
    <3>5. CASE UNCHANGED <<item, landed>>
      BY <3>5
    <3> QED
      BY <2>5, <3>3, <3>4, <3>5 DEF ApplyHeld
  <2>6. CASE MarkApproved(t, k)
    BY <2>6 DEF MarkApproved, TypeOK
  <2> QED
    BY <1>3, <2>2, <2>3, <2>4, <2>5, <2>6 DEF Handle
<1>4. ASSUME NEW i \in Items, NoteMoves(i)
      PROVE  LandInv'
  BY <1>4 DEF NoteMoves
<1>5. CASE UNCHANGED vars
  BY <1>5 DEF vars
<1> QED
  BY <1>1, <1>2, <1>3, <1>4, <1>5, GestureStep, ProceedStep DEF Next, LeftInv

LEMMA PublishServe ==
  ASSUME TypeInv, PublishInv, NEW s \in Servers, ServeStep(s) \/ Crash(s) \/ PidTaken(s)
  PROVE  PublishInv'
<1> USE DEF TypeInv, TypeOK, ServerType, Published, Coming
<1>1. left'.serial = left.serial
  BY SpendLeft DEF ServeStep, ServeStart, Listen, Publish, Stop, ReadOwnFile, Unlink, Crash, PidTaken
<1> SUFFICES ASSUME left.serial
             PROVE  PublishInv'
  BY <1>1 DEF PublishInv
<1> DEFINE A == \A o \in Servers : Published(o) => disc # NoFile /\ disc.pid = o
           B == \A o \in Servers : Coming(o) => \A p \in Servers \ {o} : ~Coming(p) /\ ~Published(p)
           C == \A o \in Servers : Coming(o) /\ disc # NoFile =>
                                     srv[o].rotated \/ srv[o].token = disc.token
<1>0. A /\ B /\ C
  BY DEF PublishInv
<1> SUFFICES A' /\ B' /\ C'
  BY DEF PublishInv
<1>2. ASSUME NEW rotate \in BOOLEAN, ServeStart(s, rotate)
      PROVE  A' /\ B' /\ C'
  <2> DEFINE heir == disc # NoFile /\ ~rotate
             incumbent == IF disc = NoFile THEN FALSE ELSE isPidAlive(disc.pid)
  <2>0. srv[s].step = "off" /\ disc' = disc
    BY <1>2 DEF ServeStart
  <2>1. CASE incumbent
    <3>1. srv' = [srv EXCEPT ![s] = [Off EXCEPT !.step = "dead"]]
      BY <1>2, <2>1 DEF ServeStart
    <3>2. srv'[s].step = "dead" /\ \A o \in Servers \ {s} : srv'[o] = srv[o]
      BY <3>1 DEF Off
    <3> QED
      BY <1>0, <2>0, <3>2
  <2>2. CASE ~incumbent
    <3>1. srv' = [srv EXCEPT ![s] = [Off EXCEPT !.step = "starting", !.rotated = rotate,
                                       !.token = IF heir THEN disc.token ELSE minted']]
      BY <1>2, <2>2 DEF ServeStart
    <3>2. /\ srv'[s].step = "starting" /\ srv'[s].rotated = rotate
          /\ heir => srv'[s].token = disc.token
          /\ \A o \in Servers \ {s} : srv'[o] = srv[o]
      BY <3>1 DEF Off
    <3>3. \A o \in Servers : ~Coming(o)
      BY <1>2 DEF ServeStart
    <3>4. \A o \in Servers : ~Published(o)
      BY <1>0, <2>2 DEF isPidAlive, Running
    <3> QED
      BY <1>0, <2>0, <3>2, <3>3, <3>4
  <2> QED
    BY <2>1, <2>2
<1>3. ASSUME NEW p \in left.ports, Listen(s, p)
      PROVE  A' /\ B' /\ C'
  <2>1. PICK q \in {"dead", "listening"} : srv' = [srv EXCEPT ![s].step = q, ![s].port = p]
    BY <1>3 DEF Listen
  <2>2. srv[s].step = "starting" /\ disc' = disc
    BY <1>3 DEF Listen
  <2> QED
    BY <1>0, <2>1, <2>2
<1>4. CASE Publish(s)
  <2>1. /\ srv[s].step = "listening" /\ srv' = [srv EXCEPT ![s].step = "serving"]
        /\ disc' = [port |-> srv[s].port, token |-> srv[s].token, pid |-> s]
    BY <1>4 DEF Publish
  <2>2. disc' # NoFile /\ disc'.pid = s
    BY <2>1, FS_CardinalityType, BridgeAssumption DEF PortInv, Listening, Tokens
  <2> QED
    BY <1>0, <2>1, <2>2
<1>5. CASE Stop(s)
  BY <1>0, <1>5 DEF Stop
<1>6. CASE ReadOwnFile(s)
  BY <1>0, <1>6 DEF ReadOwnFile
<1>7. CASE Unlink(s)
  BY <1>0, <1>7 DEF Unlink
<1>8. CASE Crash(s)
  BY <1>0, <1>8 DEF Crash
<1>9. CASE PidTaken(s)
  BY <1>0, <1>9 DEF PidTaken
<1> QED
  BY <1>2, <1>3, <1>4, <1>5, <1>6, <1>7, <1>8, <1>9 DEF ServeStep

LEMMA InvStep == Inv /\ [Next]_vars => Inv'
<1> SUFFICES ASSUME Inv, [Next]_vars PROVE Inv'
  OBVIOUS
<1> USE DEF Inv
<1>1. ReqInv' /\ RevokedRefused'
  BY RequestsStep
<1>2. LandInv'
  BY LandStep
<1>3. ASSUME NEW s \in Servers, ServeStep(s) \/ Crash(s) \/ PidTaken(s)
      PROVE  TypeInv' /\ PublishInv'
  BY <1>3, ServeTypes, PublishServe
<1>4. ASSUME NEW t \in Tasks, Gesture(t) \/ Proceed(t) \/ TimedOut(t)
      PROVE  TypeInv' /\ PublishInv'
  <2>1. Plugged(t)
    BY <1>4, GestureStep, ProceedStep
  <2> QED
    BY <2>1, PluginTypes DEF Plugged, serverVars, PublishInv, Published, Coming
<1>5. ASSUME NEW t \in Tasks, NEW k \in {1, 2}, Handle(t, k)
      PROVE  TypeInv' /\ PublishInv'
  <2>1. UNCHANGED <<serverVars, left>>
    BY <1>5, HandleOutcome DEF TypeInv
  <2> QED
    BY <1>5, <2>1, HandleTypes DEF serverVars, PublishInv, Published, Coming
<1>6. ASSUME NEW i \in Items, NoteMoves(i)
      PROVE  TypeInv' /\ PublishInv'
  BY <1>6, NoteMovesTypes DEF NoteMoves, serverVars, PublishInv, Published, Coming
<1>7. CASE UNCHANGED vars
  <2>1. TypeOK' /\ LeftInv' /\ PortInv' /\ PublishInv'
    BY <1>7 DEF vars, TypeInv, TypeOK, LeftInv, PortInv, Listening, PublishInv, Published, Coming
  <2>2. MintInv'
    BY <1>7 DEF vars, TypeInv, MintInv, Started
  <2> QED
    BY <1>1, <1>2, <2>1, <2>2 DEF TypeInv
<1>8. TypeInv' /\ PublishInv'
  BY <1>3, <1>4, <1>5, <1>6, <1>7 DEF Next, TypeInv, LeftInv
<1> QED
  BY <1>1, <1>2, <1>8

LEMMA Invariant == Spec => []Inv
BY Initial, InvStep, PTL DEF Spec

-----------------------------------------------------------------------------
(* The state of serve, of the plugin and of their requests keeps its       *)
(* types, and no bridge has a token that was not minted for it or for one  *)
(* it took over from.                                                      *)
THEOREM Types == Spec => []TypeOK
BY Invariant, PTL DEF Inv, TypeInv

(* Whatever is clicked twice, times out, dies or is taken over, the vault  *)
(* takes a held operation or an undo once (AtMostOnce).                    *)
THEOREM ClicksLandOnce == Spec => []AtMostOnce
<1>1. Inv => AtMostOnce
  BY DEF Inv, LandInv, AtMostOnce
<1> QED
  BY <1>1, Invariant, PTL

(* No handler works for a client that has not got its bridge's token.      *)
THEOREM RevokedPowerless == Spec => []RevokedRefused
BY Invariant, PTL DEF Inv

(* Started one at a time, a bridge stays discoverable until it stops.      *)
THEOREM StaysDiscoverable == Spec => []ServingIsPublished
<1>1. Inv => ServingIsPublished
  BY DEF Inv, PublishInv, Published, ServingIsPublished
<1> QED
  BY <1>1, Invariant, PTL

(* Started one at a time, a bridge that takes over keeps the token of the  *)
(* dead one unless it was told to rotate it.                               *)
THEOREM HeirKeepsToken == Spec => TokenKept
<1>1. Inv /\ [Next]_vars =>
        [left.serial /\ disc # NoFile /\ disc' # NoFile /\ disc'.token # disc.token
           => srv[disc'.pid].rotated]_vars
  <2> SUFFICES ASSUME Inv, [Next]_vars, left.serial, disc # NoFile, disc' # NoFile,
                      disc'.token # disc.token
               PROVE  srv[disc'.pid].rotated
    OBVIOUS
  <2>1. disc' # disc
    OBVIOUS
  <2>2. PICK s \in Servers : Publish(s)
    <3>1. ASSUME NEW t \in Tasks, Gesture(t) \/ Proceed(t) \/ TimedOut(t)
          PROVE  disc' = disc
      BY <3>1, GestureStep, ProceedStep DEF Plugged, serverVars, Inv
    <3>2. ASSUME NEW t \in Tasks, NEW k \in {1, 2}, Handle(t, k)
          PROVE  disc' = disc
      BY <3>2, HandleOutcome DEF serverVars, Inv, TypeInv
    <3>3. ASSUME NEW s \in Servers, ServeStep(s) \/ Crash(s) \/ PidTaken(s), ~Publish(s)
          PROVE  disc' = disc
      BY <3>3 DEF ServeStep, ServeStart, Listen, Stop, ReadOwnFile, Unlink, Crash, PidTaken
    <3>4. left.servers \subseteq Servers /\ left.tasks \subseteq Tasks
      BY DEF Inv, TypeInv, LeftInv
    <3> QED
      BY <2>1, <3>1, <3>2, <3>3, <3>4 DEF Next, NoteMoves, serverVars, vars
  <2>3. srv[s].step = "listening" /\ disc'.token = srv[s].token /\ disc'.pid = s
    BY <2>2 DEF Publish
  <2> QED
    BY <2>3 DEF Inv, PublishInv, Coming
<1> QED
  BY <1>1, Invariant, PTL DEF Spec, TokenKept
=============================================================================
