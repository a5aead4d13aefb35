------------------------------ MODULE MC_Router ------------------------------
(***************************************************************************)
(* The router with the gate's own routes and one guarded page (keys).      *)
(***************************************************************************)
EXTENDS Router

MCRoutes == {"#/welcome", "#/login", "#/oidc/callback", "#/init", "#/unseal",
             "#/unavailable", "#/keys"}

\* The address bar may also hold "" or a route the table does not know.
MCHashes == MCRoutes \cup {"", "#/nope"}

\* Bounds on the hashchange events and the handlers of a behaviour.
MaxQueued == 2
MaxHandlers == 3

EventBound == queued <= MaxQueued /\ nextId <= MaxHandlers
=============================================================================
