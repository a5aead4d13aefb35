------------------------------ MODULE MC_System ------------------------------
EXTENDS System

(***************************************************************************)
(* Five getSystem answers: one per capability, and the count fallbacks:    *)
(* an explicit totalPeers of 0 over a NOT_READY peer, non-number counts,   *)
(* lowercase states, a node not among its peers and one without an id.     *)
(***************************************************************************)
MCAnswers ==
  {[id |-> "n1", state |-> "ready", peers |-> [i \in {"n1"} |-> "ready"], totalPeers |-> 2, threshold |-> 1],
   [id |-> "n1", state |-> "ready", peers |-> [i \in {"n1"} |-> "ready"], totalPeers |-> None, threshold |-> None],
   [id |-> "n1", state |-> "DOWN", peers |-> [i \in {"n2"} |-> "DOWN"], totalPeers |-> 2, threshold |-> 1],
   [id |-> None, state |-> None, peers |-> [i \in {"n1"} |-> "NOT_READY"], totalPeers |-> 0, threshold |-> Bad],
   [id |-> "n2", state |-> "ready", peers |-> [i \in {"n1"} |-> "ready"], totalPeers |-> Bad, threshold |-> 0]}
=============================================================================
