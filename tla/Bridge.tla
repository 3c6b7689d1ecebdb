------------------------------- MODULE Bridge -------------------------------
(***************************************************************************)
(* `ledger serve` and the Obsidian plugin that talks to it: the discovery  *)
(* file a bridge publishes, the requests it serves, the plugin's client,   *)
(* which discovers the bridge, gives up after five seconds and tries once  *)
(* more, and the two views that list what waits for a person.              *)
(*                                                                         *)
(* A file read or write is one step and so is each stretch of a request    *)
(* between two awaits.  The vault lock, for which an approval or an undo   *)
(* may wait much longer than the client does, is the time between two      *)
(* steps of its handler.  What a held operation does to the vault is in    *)
(* module Broker; here it lands or it does not.                            *)
(***************************************************************************)
EXTENDS Naturals, FiniteSets

CONSTANTS
  Servers,     \* processes that run serve, each once; a process is its pid
  Ports,
  Tasks,       \* gestures in progress in the plugin
  Items,       \* what can be decided
  KindOf,      \* [Items -> Kinds]
  NoFile,      \* no discovery file
  NoServer,    \* nobody listens there
  Worlds       \* what a behaviour starts with, and its bounds

Kinds == {"create", "edit", "txn", "conflict"}
Views == {"approvals", "activity", "conflicts"}
Places == {"approvals", "activity"}

ASSUME BridgeAssumption ==
  /\ KindOf \in [Items -> Kinds]
  /\ NoServer \notin Servers
  /\ NoFile \notin [port : Ports, token : Nat, pid : Servers]
  /\ IsFiniteSet(Servers)

(* A world: the processes, ports, slots and items of a behaviour, whether  *)
(* serves are started one at a time, and how many deaths, reused pids,     *)
(* gestures, timeouts and edits of a note there may be.                    *)
ASSUME WorldsAssumption ==
  Worlds \subseteq [servers : SUBSET Servers, ports : SUBSET Ports, tasks : SUBSET Tasks,
                    items : SUBSET Items, serial : BOOLEAN, crash : Nat, reuse : Nat,
                    gestures : Nat, timeouts : Nat, edits : Nat]

VARIABLES
  disc,    \* bridge.json
  srv,     \* each serve process
  minted,  \* tokens minted so far
  taken,   \* dead processes whose pid an unrelated process now has
  item,    \* the journal's row of each item
  landed,  \* how often each item took effect in the vault
  moved,   \* edits whose note has changed since they were held
  view,    \* what each leaf of the plugin shows
  task,    \* each gesture: a refresh, or a click and the refresh after it
  reqs,    \* its first and its second request
  left     \* the world, and what remains of each of its bounds

serverVars == <<disc, srv, minted, taken>>
vaultVars == <<item, landed, moved>>
pluginVars == <<view, task>>
vars == <<disc, srv, minted, taken, item, landed, moved, view, task, reqs, left>>

Open == [create |-> "pending", edit |-> "pending", txn |-> "applied", conflict |-> "open"]
Off == [step |-> "off", port |-> 0, token |-> 0, rotated |-> FALSE]
NoRequest == [status |-> "none", server |-> NoServer, token |-> 0, op |-> "list", item |-> "none",
              answer |-> "none", rows |-> {}]
NoClient == [port |-> 0, token |-> 0]
NoTask == [pc |-> "idle", place |-> "approvals", tab |-> "approvals", op |-> "list",
           item |-> "none", client |-> NoClient, tries |-> 0]

Init ==
  /\ disc = NoFile
  /\ srv = [s \in Servers |-> Off]
  /\ minted = 0
  /\ taken = {}
  /\ item = [i \in Items |-> Open[KindOf[i]]]
  /\ landed = [i \in Items |-> 0]
  /\ moved = {}
  /\ view = [p \in Places |-> [tab |-> p, rows |-> {}, doubled |-> FALSE, says |-> "closed",
                               notice |-> [item |-> "none", what |-> "none"]]]
  /\ task = [t \in Tasks |-> NoTask]
  /\ reqs = [t \in Tasks |-> [k \in {1, 2} |-> NoRequest]]
  /\ left \in Worlds

Spend(budget) ==
  /\ left[budget] > 0
  /\ left' = [left EXCEPT ![budget] = @ - 1]

-----------------------------------------------------------------------------
(* The serve command.                                                      *)

Running(s) == srv[s].step \notin {"off", "dead"}
(* Mutant: only the processes of other users count as alive. *)
MutIsPidAlive(s) == s \in taken

isPidAlive(s) == Running(s) \/ s \in taken
Listening(s) == srv[s].step \in {"listening", "serving"}

(* Mutant: every serve mints a token. *)
MutServeStart(s, rotate) ==
  LET incumbent == IF disc = NoFile THEN FALSE ELSE isPidAlive(disc.pid) IN
  /\ srv[s].step = "off"
  /\ left.serial => \A o \in Servers : srv[o].step \notin {"starting", "listening"}
  /\ minted' = IF incumbent THEN minted ELSE minted + 1
  /\ srv' = [srv EXCEPT ![s] =
       IF incumbent THEN [Off EXCEPT !.step = "dead"]
       ELSE [Off EXCEPT !.step = "starting", !.rotated = rotate, !.token = minted']]
  /\ UNCHANGED <<disc, taken, vaultVars, pluginVars, reqs, left>>

(* serveCommand up to startBridge: refuse if the file names a live pid,    *)
(* take over the token of a dead one unless it is to be rotated.           *)
ServeStart(s, rotate) ==
  LET heir == disc # NoFile /\ ~rotate
      incumbent == IF disc = NoFile THEN FALSE ELSE isPidAlive(disc.pid) IN
  /\ srv[s].step = "off"
  /\ left.serial => \A o \in Servers : srv[o].step \notin {"starting", "listening"}
  /\ minted' = IF incumbent \/ heir THEN minted ELSE minted + 1
  /\ srv' = [srv EXCEPT ![s] =
       IF incumbent THEN [Off EXCEPT !.step = "dead"]
       ELSE [Off EXCEPT !.step = "starting", !.rotated = rotate,
                        !.token = IF heir THEN disc.token ELSE minted']]
  /\ UNCHANGED <<disc, taken, vaultVars, pluginVars, reqs, left>>

(* openVault, whose reconcile closes the approvals that landed, and        *)
(* listen, which fails if the port that was asked for is taken.            *)
Listen(s, p) ==
  /\ srv[s].step = "starting"
  /\ item' = [i \in Items |-> IF item[i] = "pending" /\ landed[i] > 0 THEN "approved" ELSE item[i]]
  /\ srv' = [srv EXCEPT ![s].step = IF \E o \in Servers : Listening(o) /\ srv[o].port = p
                                    THEN "dead" ELSE "listening",
                        ![s].port = p]
  /\ UNCHANGED <<disc, minted, taken, landed, moved, pluginVars, reqs, left>>

Publish(s) ==
  /\ srv[s].step = "listening"
  /\ disc' = [port |-> srv[s].port, token |-> srv[s].token, pid |-> s]
  /\ srv' = [srv EXCEPT ![s].step = "serving"]
  /\ UNCHANGED <<minted, taken, vaultVars, pluginVars, reqs, left>>

(* close(): no new connections; then, when the requests being served are   *)
(* answered, read the discovery file and remove it if it is one's own.     *)
Stop(s) ==
  /\ srv[s].step = "serving"
  /\ srv' = [srv EXCEPT ![s].step = "closing"]
  /\ UNCHANGED <<disc, minted, taken, vaultVars, pluginVars, reqs, left>>

Working(s) == \E t \in Tasks, k \in {1, 2} :
  reqs[t][k].server = s /\ reqs[t][k].status \in {"sent", "loaded", "applied"}

ReadOwnFile(s) ==
  /\ srv[s].step = "closing"
  /\ ~Working(s)
  /\ srv' = [srv EXCEPT ![s].step =
               IF disc # NoFile /\ disc.pid = s /\ disc.port = srv[s].port THEN "unlinking"
               ELSE "dead"]
  /\ UNCHANGED <<disc, minted, taken, vaultVars, pluginVars, reqs, left>>

Unlink(s) ==
  /\ srv[s].step = "unlinking"
  /\ disc' = NoFile
  /\ srv' = [srv EXCEPT ![s].step = "dead"]
  /\ UNCHANGED <<minted, taken, vaultVars, pluginVars, reqs, left>>

(* A crash leaves the file and breaks every connection.                    *)
Crash(s) ==
  /\ Running(s)
  /\ Spend("crash")
  /\ srv' = [srv EXCEPT ![s].step = "dead"]
  /\ reqs' = [t \in Tasks |-> [k \in {1, 2} |->
                IF reqs[t][k].server = s /\ reqs[t][k].status \in {"sent", "loaded", "applied"}
                THEN [reqs[t][k] EXCEPT !.status = "gone"] ELSE reqs[t][k]]]
  /\ UNCHANGED <<disc, minted, taken, vaultVars, pluginVars>>

PidTaken(s) ==
  /\ srv[s].step = "dead"
  /\ s \notin taken
  /\ Spend("reuse")
  /\ taken' = taken \cup {s}
  /\ UNCHANGED <<disc, srv, minted, vaultVars, pluginVars, reqs>>

-----------------------------------------------------------------------------
(* The requests a bridge serves.                                           *)

(* Where a request goes: to whoever listens on the client's port.          *)
Sent(client, op, i) ==
  LET there == {s \in Servers : Listening(s) /\ srv[s].port = client.port} IN
  [NoRequest EXCEPT !.status = IF there = {} THEN "gone" ELSE "sent",
                    !.server = IF there = {} THEN NoServer ELSE CHOOSE s \in there : TRUE,
                    !.token = client.token, !.op = op, !.item = i]

Answered(t, k, answer) ==
  reqs' = [reqs EXCEPT ![t][k].status = "done", ![t][k].answer = answer]

(* Mutant: any bearer token will do. *)
MutAuthorized(r) == r.token > 0

Authorized(r) == r.token = srv[r.server].token

(* The onRequest hook: a request without the token goes no further.        *)
Guard(t, k) ==
  /\ reqs[t][k].status = "sent"
  /\ ~Authorized(reqs[t][k])
  /\ Answered(t, k, "unauthorized")
  /\ UNCHANGED <<serverVars, vaultVars, pluginVars, left>>

Admitted(t, k, op) ==
  /\ reqs[t][k].status = "sent"
  /\ reqs[t][k].op = op
  /\ Authorized(reqs[t][k])

Listed(tab) ==
  {i \in left.items : /\ item[i] = Open[KindOf[i]]
                       /\ tab = CASE KindOf[i] = "txn" -> "activity"
                                  [] KindOf[i] = "conflict" -> "conflicts"
                                  [] OTHER -> "approvals"}

ServeList(t, k) ==
  /\ Admitted(t, k, "list")
  /\ reqs' = [reqs EXCEPT ![t][k].status = "done", ![t][k].answer = "ok",
                          ![t][k].rows = Listed(reqs[t][k].item)]
  /\ UNCHANGED <<serverVars, vaultVars, pluginVars, left>>

(* reject, resolve, dismiss: one synchronous look and update.              *)
ServeClose(t, k) ==
  LET r == reqs[t][k] IN
  /\ r.op \in {"reject", "resolve", "dismiss"}
  /\ Admitted(t, k, r.op)
  /\ \/ /\ item[r.item] = Open[KindOf[r.item]]
        /\ item' = [item EXCEPT ![r.item] = [reject |-> "rejected", resolve |-> "resolved",
                                             dismiss |-> "dismissed"][r.op]]
        /\ Answered(t, k, "ok")
     \/ /\ item[r.item] # Open[KindOf[r.item]]
        /\ Answered(t, k, "error")
        /\ UNCHANGED item
  /\ UNCHANGED <<serverVars, landed, moved, pluginVars, left>>

(* undo waits for the lock and only then looks at the transaction.         *)
ServeUndo(t, k) ==
  LET i == reqs[t][k].item IN
  /\ Admitted(t, k, "undo")
  /\ \/ /\ item[i] = "applied"
        /\ item' = [item EXCEPT ![i] = "reverted"]
        /\ landed' = [landed EXCEPT ![i] = @ + 1]
        /\ Answered(t, k, "ok")
     \/ /\ item[i] # "applied"
        /\ Answered(t, k, "error")
        /\ UNCHANGED <<item, landed>>
  /\ UNCHANGED <<serverVars, moved, pluginVars, left>>

(* approve looks at the row before it waits for the lock.                  *)
LoadPending(t, k) ==
  /\ Admitted(t, k, "approve")
  /\ IF item[reqs[t][k].item] = "pending"
     THEN reqs' = [reqs EXCEPT ![t][k].status = "loaded"]
     ELSE Answered(t, k, "error")
  /\ UNCHANGED <<serverVars, vaultVars, pluginVars, left>>

(* Mutant: the hash of the note is not compared. *)
MutApplyHeld(t, k) ==
  /\ reqs[t][k].status = "loaded"
  /\ landed' = [landed EXCEPT ![reqs[t][k].item] = @ + 1]
  /\ reqs' = [reqs EXCEPT ![t][k].status = "applied"]
  /\ UNCHANGED <<serverVars, item, moved, pluginVars, left>>

(* The broker under the lock: an edit whose note has another hash is       *)
(* stale, and so it is after it landed; a note that exists is not created  *)
(* again.                                                                  *)
ApplyHeld(t, k) ==
  LET i == reqs[t][k].item IN
  /\ reqs[t][k].status = "loaded"
  /\ \/ /\ landed[i] = 0 /\ i \notin moved
        /\ landed' = [landed EXCEPT ![i] = @ + 1]
        /\ reqs' = [reqs EXCEPT ![t][k].status = "applied"]
        /\ UNCHANGED item
     \/ /\ landed[i] > 0 \/ i \in moved
        /\ KindOf[i] = "edit"
        /\ item' = [item EXCEPT ![i] = "stale"]
        /\ Answered(t, k, "stale")
        /\ UNCHANGED landed
     \/ /\ landed[i] > 0
        /\ KindOf[i] = "create"
        /\ Answered(t, k, "error")
        /\ UNCHANGED <<item, landed>>
  /\ UNCHANGED <<serverVars, moved, pluginVars, left>>

MarkApproved(t, k) ==
  /\ reqs[t][k].status = "applied"
  /\ item' = [item EXCEPT ![reqs[t][k].item] = "approved"]
  /\ Answered(t, k, "ok")
  /\ UNCHANGED <<serverVars, landed, moved, pluginVars, left>>

(* Somebody edits the note an edit is held for.                            *)
NoteMoves(i) ==
  /\ KindOf[i] = "edit"
  /\ i \notin moved
  /\ Spend("edits")
  /\ moved' = moved \cup {i}
  /\ UNCHANGED <<serverVars, item, landed, pluginVars, reqs>>

-----------------------------------------------------------------------------
(* The plugin.                                                             *)

(* A slot is free when the server is done with its last requests too.      *)
Free(t) ==
  /\ task[t].pc = "idle"
  /\ \A k \in {1, 2} : reqs[t][k].status \in {"none", "done", "gone"}

discover == [port |-> disc.port, token |-> disc.token]

Begun(t, j, r) ==
  /\ task' = [task EXCEPT ![t] = j]
  /\ reqs' = [reqs EXCEPT ![t] = [k \in {1, 2} |-> IF k = 1 THEN r ELSE NoRequest]]

(* refresh(): the leaf is emptied and the bridge discovered anew; without  *)
(* a file the view says that no bridge is running.                         *)
Refreshed(t, place, tab, notice) ==
  \/ /\ disc = NoFile
     /\ view' = [view EXCEPT ![place] = [tab |-> tab, rows |-> {}, doubled |-> FALSE,
                                         says |-> "not running", notice |-> notice]]
     /\ Begun(t, NoTask, NoRequest)
  \/ /\ disc # NoFile
     /\ view' = [view EXCEPT ![place] = [tab |-> tab, rows |-> {}, doubled |-> FALSE,
                                         says |-> "loading", notice |-> notice]]
     /\ Begun(t, [NoTask EXCEPT !.pc = "list", !.place = place, !.tab = tab, !.item = tab,
                                !.client = discover, !.tries = 1],
              Sent(discover, "list", tab))

(* Opening the leaf, its Refresh button, and the tabs of the activity one. *)
Refresh(t, place, tab) ==
  /\ Free(t)
  /\ Spend("gestures")
  /\ tab = place \/ (place = "activity" /\ tab = "conflicts")
  /\ Refreshed(t, place, tab, view[place].notice)
  /\ UNCHANGED <<serverVars, vaultVars>>

Buttons(i) == CASE KindOf[i] = "txn" -> {"undo"}
                [] KindOf[i] = "conflict" -> {"resolve", "dismiss"}
                [] OTHER -> {"approve", "reject"}

Click(t, place, row, op) ==
  /\ Free(t)
  /\ row \in view[place].rows
  /\ op \in Buttons(row.item)
  /\ Spend("gestures")
  /\ Begun(t, [NoTask EXCEPT !.pc = "act", !.place = place, !.op = op, !.item = row.item,
                             !.client = row.client, !.tries = 1],
           Sent(row.client, op, row.item))
  /\ UNCHANGED <<serverVars, vaultVars, view>>

Current(t) == reqs[t][task[t].tries]

(* The answer to a refresh: its rows are appended to what the leaf shows.  *)
Render(t) ==
  LET j == task[t]
      old == view[j.place] IN
  /\ j.pc = "list"
  /\ Current(t).status = "done"
  /\ view' = [view EXCEPT ![j.place] =
       [old EXCEPT !.says = IF Current(t).answer = "ok" THEN "listed" ELSE "error",
                   !.rows = @ \cup [item : Current(t).rows, client : {j.client}],
                   !.doubled = @ \/ \E r \in old.rows : r.item \in Current(t).rows]]
  /\ task' = [task EXCEPT ![t] = NoTask]
  /\ reqs' = [reqs EXCEPT ![t][j.tries] = NoRequest]
  /\ UNCHANGED <<serverVars, vaultVars, left>>

(* The answer to a click: a notice if it failed or went stale, and a       *)
(* refresh of the leaf.                                                    *)
Notify(t) ==
  LET j == task[t]
      notice == [item |-> j.item,
                 what |-> IF Current(t).answer = "unauthorized" THEN "error" ELSE Current(t).answer] IN
  /\ j.pc = "act"
  /\ Current(t).status = "done"
  /\ Refreshed(t, j.place, view[j.place].tab, notice)
  /\ UNCHANGED <<serverVars, vaultVars, left>>

(* Mutant: the retry goes through the retrying wrapper. *)
MutUnavailable(t) ==
  LET j == task[t] IN
  IF disc # NoFile
  THEN /\ task' = [task EXCEPT ![t].tries = 2, ![t].client = discover]
       /\ reqs' = [reqs EXCEPT ![t][2] = Sent(discover, j.op, j.item)]
       /\ UNCHANGED view
  ELSE /\ task' = [task EXCEPT ![t] = NoTask]
       /\ UNCHANGED <<reqs, view>>

(* BridgeUnavailableError: the connection failed, or five seconds passed.  *)
(* The first time the bridge is discovered anew and asked again; an error  *)
(* that is thrown to the view ends the gesture there.                      *)
Unavailable(t) ==
  LET j == task[t] IN
  IF j.tries = 1 /\ disc # NoFile
  THEN /\ task' = [task EXCEPT ![t].tries = 2, ![t].client = discover]
       /\ reqs' = [reqs EXCEPT ![t][2] = Sent(discover, j.op, j.item)]
       /\ view' = [view EXCEPT ![j.place].rows =
                     {IF r.client = j.client THEN [r EXCEPT !.client = discover] ELSE r : r \in @}]
  ELSE /\ task' = [task EXCEPT ![t] = NoTask]
       /\ UNCHANGED <<reqs, view>>

Disconnected(t) ==
  /\ task[t].pc # "idle"
  /\ Current(t).status = "gone"
  /\ Unavailable(t)
  /\ UNCHANGED <<serverVars, vaultVars, left>>

TimedOut(t) ==
  /\ task[t].pc # "idle"
  /\ Current(t).status \in {"sent", "loaded", "applied"}
  /\ Spend("timeouts")
  /\ Unavailable(t)
  /\ UNCHANGED <<serverVars, vaultVars>>

-----------------------------------------------------------------------------
Handle(t, k) ==
  \/ Guard(t, k) \/ ServeList(t, k) \/ ServeClose(t, k) \/ ServeUndo(t, k)
  \/ LoadPending(t, k) \/ ApplyHeld(t, k) \/ MarkApproved(t, k)

Proceed(t) == Render(t) \/ Notify(t) \/ Disconnected(t)

ServeStep(s) ==
  \/ \E rotate \in BOOLEAN : ServeStart(s, rotate)
  \/ \E p \in left.ports : Listen(s, p)
  \/ Publish(s) \/ Stop(s) \/ ReadOwnFile(s) \/ Unlink(s)

Gesture(t) ==
  \E place \in Places :
    \/ \E tab \in Views : Refresh(t, place, tab)
    \/ \E row \in view[place].rows : \E op \in Buttons(row.item) : Click(t, place, row, op)

Next ==
  \/ \E s \in left.servers : ServeStep(s) \/ Crash(s) \/ PidTaken(s)
  \/ \E t \in left.tasks : \/ Gesture(t) \/ Proceed(t) \/ TimedOut(t)
                           \/ \E k \in {1, 2} : Handle(t, k)
  \/ \E i \in left.items : NoteMoves(i)

Spec == Init /\ [][Next]_vars

(* A handler that has the request and a client that has the answer go on.  *)
LiveSpec ==
  /\ Spec
  /\ \A t \in Tasks : WF_vars(Proceed(t)) /\ \A k \in {1, 2} : WF_vars(Handle(t, k))
=============================================================================
