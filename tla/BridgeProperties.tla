-------------------------- MODULE BridgeProperties --------------------------
(***************************************************************************)
(* What `ledger serve` and the plugin owe the person who uses them.        *)
(***************************************************************************)
EXTENDS Bridge

Tokens == 0 .. Cardinality(Servers)
Clients == [port : Ports \cup {0}, token : Tokens]
Ops == {"list", "approve", "reject", "undo", "resolve", "dismiss"}
Answers == {"none", "ok", "error", "stale", "unauthorized"}
Subjects == Items \cup Views \cup {"none"}

ServerType ==
  [step : {"off", "starting", "listening", "serving", "closing", "unlinking", "dead"},
   port : Ports \cup {0}, token : Tokens, rotated : BOOLEAN]
ItemStates == {"pending", "approved", "rejected", "stale", "applied", "reverted", "open",
               "resolved", "dismissed"}
LeafType ==
  [tab : Views, rows : SUBSET [item : Items, client : Clients], doubled : BOOLEAN,
   says : {"closed", "loading", "listed", "error", "not running"},
   notice : [item : Subjects, what : Answers]]
TaskType ==
  [pc : {"idle", "list", "act"}, place : Places, tab : Views, op : Ops, item : Subjects,
   client : Clients, tries : 0..2]
RequestType ==
  [status : {"none", "sent", "loaded", "applied", "done", "gone"},
   server : Servers \cup {NoServer}, token : Tokens, op : Ops, item : Subjects,
   answer : Answers, rows : SUBSET Items]

(* The type invariant of serve, its requests and the plugin; only a list   *)
(* is not about an item, and a gesture in progress has sent its request.   *)
TypeOK ==
  /\ disc \in [port : Ports, token : Tokens, pid : Servers] \cup {NoFile}
  /\ srv \in [Servers -> ServerType]
  /\ minted \in Tokens
  /\ taken \subseteq Servers
  /\ item \in [Items -> ItemStates]
  /\ landed \in [Items -> Nat]
  /\ moved \subseteq Items
  /\ view \in [Places -> LeafType]
  /\ task \in [Tasks -> TaskType]
  /\ reqs \in [Tasks -> [{1, 2} -> RequestType]]
  /\ \A t \in Tasks : /\ task[t].pc # "idle" => task[t].tries # 0
                      /\ task[t].op # "list" => task[t].item \in Items
  /\ \A t \in Tasks, k \in {1, 2} : reqs[t][k].op # "list" => reqs[t][k].item \in Items

(* As long as nobody starts two at a time, a bridge that has published     *)
(* itself stays discoverable until it stops: neither another serve nor a   *)
(* late close() replaces or removes its file.                              *)
ServingIsPublished ==
  left.serial =>
    \A s \in Servers : srv[s].step = "serving" => disc # NoFile /\ disc.pid = s

(* There too, a bridge that replaces the file of a dead one has its token, *)
(* so that the clients it left behind keep working, unless it was told to  *)
(* rotate.                                                                 *)
TokenKept ==
  [][left.serial /\ disc # NoFile /\ disc' # NoFile /\ disc'.token # disc.token
       => srv[disc'.pid].rotated]_vars

(* However often a click is delivered, and whatever dies in between, the   *)
(* vault takes the held operation or the undo once.                        *)
AtMostOnce == \A i \in Items : landed[i] <= 1

(* No handler works for a client whose token is not the bridge's: after a  *)
(* rotation the rows drawn before it are powerless.                        *)
RevokedRefused ==
  \A t \in Tasks, k \in {1, 2} :
    reqs[t][k].status \in {"loaded", "applied"} \/ reqs[t][k].answer \in {"ok", "stale", "error"}
      => reqs[t][k].token = srv[reqs[t][k].server].token

(* Every gesture comes to an end: the answer, or an error after at most    *)
(* two attempts.                                                           *)
GestureEnds == \A t \in Tasks : task[t].pc # "idle" ~> task[t].pc = "idle"

-----------------------------------------------------------------------------
(* What the documents say and the code does not do.                        *)

(* "LIVE pid -> a bridge is already serving this vault; REFUSE to start":  *)
(* two bridges never serve at once.                                        *)
OneBridge == \A s, o \in Servers : Listening(s) /\ Listening(o) => s = o

(* The same line, the other way: who is refused finds a bridge running.    *)
RefusedMeansServing ==
  [][\A s \in Servers : srv[s].step = "off" /\ srv'[s].step = "dead" => Running(disc.pid)]_vars

(* "Starting serve again reuses the token by default".                     *)
TokenReused == (\A s \in Servers : ~srv[s].rotated) => minted <= 1

(* A rotated token is picked up by re-discovery: no click is turned down   *)
(* for a token that the discovery file would have put right.               *)
TokenRediscovered ==
  ~\E t \in Tasks : /\ task[t].pc = "act"
                    /\ Current(t).status = "done" /\ Current(t).answer = "unauthorized"
                    /\ disc # NoFile /\ Running(disc.pid)
                    /\ disc.port = task[t].client.port /\ disc.token # task[t].client.token

(* "This edit went stale (the file changed) - rejected automatically": an  *)
(* approval that is stale did not land.                                    *)
StaleDidNotLand == \A i \in Items : item[i] = "stale" => landed[i] = 0

(* Without a bridge to talk to, the view says so.                          *)
UnavailableIsShown ==
  \A p \in Places : view[p].says = "loading" => \E t \in Tasks : task[t].pc = "list" /\ task[t].place = p

(* refresh() re-renders from scratch: nothing is listed twice.             *)
ListedOnce == \A p \in Places : ~view[p].doubled
=============================================================================
