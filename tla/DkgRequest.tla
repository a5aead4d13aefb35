----------------------------- MODULE DkgRequest -----------------------------
(***************************************************************************)
(* What the DKG form of keygen.js promises, stated without the form: at    *)
(* most one dkgGenerate request at a time, each one a request the user may *)
(* make, and an outcome that names the request it answers.  The user may   *)
(* dismiss the outcome (the reset button) at any time.  Keygen refines     *)
(* this specification; its editing and its refused clicks are stutters.   *)
(***************************************************************************)
CONSTANTS Requests, \* the request bodies the form may send
          Modes,    \* the DKG modes
          None      \* no request, no outcome

VARIABLES allowed, \* the modes the user holds the permission of
          busy,    \* a request is awaiting its answer
          sent,    \* the last request sent
          told     \* the outcome shown: None or [kind, mode]

vars == <<allowed, busy, sent, told>>

Outcomes == {"success", "danger"}

Init ==
  /\ allowed \subseteq Modes
  /\ busy = FALSE /\ sent = None /\ told = None

\* A request for an allowed mode goes out, only when none is pending.
Send ==
  /\ ~busy
  /\ sent' \in Requests /\ sent'.mode \in allowed
  /\ busy' = TRUE
  /\ UNCHANGED <<allowed, told>>

\* The pending request is answered, and the outcome names its mode.
Reply ==
  /\ busy
  /\ \E k \in Outcomes : told' = [kind |-> k, mode |-> sent.mode]
  /\ busy' = FALSE
  /\ UNCHANGED <<allowed, sent>>

\* The outcome is cleared.
Dismiss ==
  /\ told' = None
  /\ UNCHANGED <<allowed, busy, sent>>

Next == Send \/ Reply \/ Dismiss

Spec == Init /\ [][Next]_vars
=============================================================================
