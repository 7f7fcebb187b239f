--------------------------- MODULE MCStageRunner ----------------------------
(***************************************************************************)
(* Every acyclic stage of three nodes up to renaming (a node uses only     *)
(* nodes before it in the alphabet, in any of the seven ways, while the    *)
(* configuration lists them backwards), and a cyclic one.                  *)
(***************************************************************************)
EXTENDS StageRunner

MCNodes     == {"a", "b", "c"}
MCRank      == [n \in MCNodes |-> CASE n = "a" -> 3 [] n = "b" -> 2 [] n = "c" -> 1]

UseOf(ba, ca, cb) ==
    [c \in MCNodes |-> [p \in MCNodes |->
        CASE c = "b" /\ p = "a" -> ba
          [] c = "c" /\ p = "a" -> ca
          [] c = "c" /\ p = "b" -> cb
          [] OTHER -> "none"]]

Cyclic == [UseOf("single", "none", "none") EXCEPT !["a"]["b"] = "after"]

(* "optional" differs from "collection" only in what it tolerates, "after" *)
(* from "single" only in the inputs: they appear between two nodes.  Node  *)
(* a as the producer of the stage's output may also be a tolerated source. *)
MCStages ==
    {[use |-> UseOf(ba, ca, cb), producers |-> {"c"}] :
        ba \in Uses, ca \in {"none", "single", "collection"},
        cb \in {"none", "collection", "any", "strict"}}
    \cup {[use |-> UseOf(ba, "none", "optional"), producers |-> {"a"}] : ba \in Uses}
    \cup {[use |-> UseOf(ba, "collection", "collection"), producers |-> {"a"}] : ba \in Uses}
    \cup {[use |-> Cyclic, producers |-> {}]}
=============================================================================
