------------------------------- MODULE MCGates -------------------------------
(***************************************************************************)
(* The vaults, the frontmatters and the notes on which the three gates are *)
(* checked.                                                                *)
(***************************************************************************)
EXTENDS Gates

(* Vaults and edits of the manifest.                                       *)

MCSegments == STRING

(* Folders excluded, whole or not, or included again.                      *)
FolderEdits ==
  {[op |-> "remove", zone |-> "excluded", glob |-> <<"**", "private", "**">>],
   [op |-> "add", zone |-> "excluded", glob |-> <<"private", "**">>],
   [op |-> "add", zone |-> "excluded", glob |-> <<"agent", "private", "**">>],
   [op |-> "add", zone |-> "excluded", glob |-> <<"private", "*">>],
   [op |-> "override", glob |-> <<"private", "**">>, zone |-> "trusted"],
   [op |-> "override", glob |-> <<"private", "agent", "**">>, zone |-> "trusted"],
   [op |-> "override", glob |-> <<"**">>, zone |-> "excluded"]}

(* Globs that overlap, some of them equally specific.                      *)
RuleEdits ==
  [op : {"override", "add"}, zone : {"trusted", "scratch"},
   glob : {<<"agent", "*">>, <<"**", "agent", "**">>, <<"*", "*">>, <<"agent", "scratch", "**">>}]

MCVaults ==
  {[names |-> {"private", "agent", "trash"}, rules |-> FolderEdits, depth |-> 3, folders |-> 4, edits |-> 2],
   [names |-> {"private", "agent", "scratch"}, rules |-> RuleEdits, depth |-> 2, folders |-> 3, edits |-> 2]}

-----------------------------------------------------------------------------
(* Frontmatters.                                                           *)

Note(nodes, ledger, entity, frontmatter, links) ==
  [frontmatter |-> frontmatter, nodes |-> nodes, ledger |-> ledger,
   entity |-> entity, links |-> links]

(* Every node a map or a list over at most the places 1 and 2; a list has  *)
(* no second place without a first.                                        *)
NodesOver(N) ==
  {x \in [kind : {"map", "list"}, at : UNION {[K -> N \cup {"x"}] : K \in SUBSET (1 .. 2)}] :
     x.kind = "list" => DOMAIN x.at # {2}}

(* Two-node graphs; the ledger is the first node.                          *)
PairNotes == {Note(g, "n1", "null", "closed", 0) : g \in [{"n1", "n2"} -> NodesOver({"n1", "n2"})]}

(* A few shapes with every entity, ledger and frontmatter.                 *)
OneNode == {[i \in {"n1"} |-> [kind |-> "map", at |-> f]] :
              f \in {[k \in {} |-> "x"], [k \in {1} |-> "x"], [k \in {1} |-> "n1"]}}
RetryNotes ==
  {Note(g, l, e, "closed", c) : g \in OneNode, l \in {"n1", "x", "null"},
                                e \in {"kai", "7", "null"}, c \in 0 .. 1}
  \cup {Note([n \in {} |-> "x"], "null", "null", fm, 0) : fm \in {"none", "corrupt"}}

(* A value that YAML makes a Date or NaN, or that one may be taken for, as *)
(* the ledger or under it.                                                 *)
OddNodes == {[kind |-> k, at |-> [i \in {} |-> "x"]] : k \in {"map", "list", "d1", "d2"}}
              \cup {[kind |-> "map", at |-> [i \in {1} |-> v]] : v \in {"x", "NaN"}}
OddNotes ==
  {Note([n1 |-> [kind |-> "map", at |-> [i \in {1} |-> v]], n2 |-> n], l, "null", "closed", 0) :
     n \in OddNodes, v \in {"n2", "x", "NaN"}, l \in {"n1", "n2"}}

MCFrontmatters == [pairs |-> [notes |-> PairNotes, revises |-> 1],
                   retries |-> [notes |-> RetryNotes, revises |-> 2],
                   odd |-> [notes |-> OddNotes, revises |-> 2]]
=============================================================================
