------------------------------- MODULE Router -------------------------------
(***************************************************************************)
(* The router of ui.js: boot() gates and renders the first route, then     *)
(* registers the hashchange listener; each hashchange runs gateByStatus()  *)
(* and navigate() of whatever location.hash holds when they run.  Both are *)
(* async: gateByStatus awaits getStatus, navigate awaits the page's HTML   *)
(* and then the page module's init().  Every await is a point where other  *)
(* handlers run and answers arrive, in any order.                          *)
(*                                                                         *)
(* A handler in flight is a record: pc "start" (about to run the gate),    *)
(* "status" (awaiting getStatus), "fetch" (awaiting the HTML of route),    *)
(* "init" (awaiting the module).  A hashchange is queued when              *)
(* location.hash changes and dispatched later, as browsers do.             *)
(***************************************************************************)
EXTENDS Naturals, FiniteSets

CONSTANTS Routes,   \* the keys of ROUTES that the model uses
          Hashes,   \* what location.hash may hold: routes, "" and unknown ones
          Perms,    \* the gate permissions the user holds: "init", "unseal"
          Statuses  \* the keeper states getStatus may report

Welcome == "#/welcome"
Login == "#/login"
Oidc == "#/oidc/callback"
InitRoute == "#/init"
Unseal == "#/unseal"
Unavailable == "#/unavailable"

\* Routes that gateByStatus lets through without looking (line 92).
Exempt == {Login, Oidc, Welcome}

ASSUME RouterAssumption ==
  /\ Exempt \cup {InitRoute, Unseal, Unavailable} \subseteq Routes
  /\ Routes \subseteq Hashes
  /\ "none" \notin Routes     \* the empty view is not a key of ROUTES
  /\ Perms \subseteq {"init", "unseal"}
  /\ Statuses \subseteq {"UNINITIALIZED", "SEALED", "UNSEALED"}

VARIABLES hash,      \* location.hash
          queued,    \* hashchange events not yet dispatched
          listening, \* boot() has added its hashchange listener
          subject,   \* Auth.subject is set
          status,    \* the keeper's state, as getStatus reports it
          title,     \* the route whose title the header shows
          view,      \* the route whose page #tk-view holds ("none": empty)
          handlers,  \* boot and hashchange handlers in flight
          nextId     \* handlers started so far

vars == <<hash, queued, listening, subject, status, title, view, handlers, nextId>>

\* Assigning location.hash queues a hashchange only when the value changes.
SetHash(x) ==
  /\ hash' = x
  /\ queued' = IF x # hash THEN queued + 1 ELSE queued

\* normalizeRoute(hash): a known route, or welcome.
NormalizeRoute(x) == IF x \in Routes THEN x ELSE Welcome

\* Auth.hasPermission after logout answers from the empty set of reset().
HasPerm(p) == subject /\ p \in Perms

\* navigate(route) up to the await of fetchText: title and active link.
Navigate(h, r) ==
  /\ title' = r
  /\ handlers' = (handlers \ {h}) \cup {[h EXCEPT !.pc = "fetch", !.route = r]}

Init ==
  /\ hash \in Hashes
  /\ queued = 0 /\ listening = FALSE
  /\ subject \in BOOLEAN
  /\ status \in Statuses
  /\ title = "none" /\ view = "none"
  /\ handlers = {[id |-> 1, boot |-> TRUE, pc |-> "start", route |-> "none"]}
  /\ nextId = 1

(***************************************************************************)
(* gateByStatus() up to its await: exempt routes return, no subject sends  *)
(* to welcome; either way the handler goes on to navigate(location.hash).  *)
(* Otherwise getStatus is sent.                                            *)
(***************************************************************************)
GateStart(h) ==
  /\ h \in handlers /\ h.pc = "start"
  /\ \/ /\ NormalizeRoute(hash) \in Exempt
        /\ UNCHANGED <<hash, queued>>
        /\ Navigate(h, NormalizeRoute(hash))
     \/ /\ NormalizeRoute(hash) \notin Exempt /\ ~subject
        /\ SetHash(Welcome)
        /\ Navigate(h, Welcome)
     \/ /\ NormalizeRoute(hash) \notin Exempt /\ subject
        /\ handlers' = (handlers \ {h}) \cup {[h EXCEPT !.pc = "status"]}
        /\ UNCHANGED <<hash, queued, title>>
  /\ UNCHANGED <<listening, subject, status, view, nextId>>

\* Where gateByStatus sends a keeper in state st (lines 102-132).
GateTarget(st) ==
  CASE st = "UNINITIALIZED" -> IF HasPerm("init") THEN InitRoute ELSE Unavailable
    [] st = "SEALED"        -> IF HasPerm("unseal") THEN Unseal ELSE Unavailable
    [] st = "UNSEALED"      -> hash
    [] st = "failed"        -> Unavailable

\* Mutant: the gate's handler navigates to the raw hash, unnormalized.
StatusAnswerRaw(h, st) ==
  /\ h \in handlers /\ h.pc = "status"
  /\ SetHash(GateTarget(st))
  /\ Navigate(h, GateTarget(st))
  /\ UNCHANGED <<listening, subject, status, view, nextId>>

\* getStatus answers (or throws: "failed"); the gate may redirect, then the
\* handler navigates to what location.hash now holds.
StatusAnswer(h, st) ==
  /\ h \in handlers /\ h.pc = "status"
  /\ SetHash(GateTarget(st))
  /\ Navigate(h, NormalizeRoute(GateTarget(st)))
  /\ UNCHANGED <<listening, subject, status, view, nextId>>

\* A navigation's continuation is over; for boot's, the listeners of lines
\* 48-56 are added now.
Finish(h) ==
  /\ handlers' = handlers \ {h}
  /\ listening' = (listening \/ h.boot)

\* fetchText resolves: the page's HTML replaces the view.
FetchOk(h) ==
  /\ h \in handlers /\ h.pc = "fetch"
  /\ view' = h.route
  /\ handlers' = (handlers \ {h}) \cup {[h EXCEPT !.pc = "init"]}
  /\ UNCHANGED <<hash, queued, listening, subject, status, title, nextId>>

\* fetchText throws: an alert, the view is emptied, navigate returns.
FetchFails(h) ==
  /\ h \in handlers /\ h.pc = "fetch"
  /\ view' = "none"
  /\ Finish(h)
  /\ UNCHANGED <<hash, queued, subject, status, title, nextId>>

\* The module is imported and its init() returns (or throws: an alert).
InitDone(h) ==
  /\ h \in handlers /\ h.pc = "init"
  /\ Finish(h)
  /\ UNCHANGED <<hash, queued, subject, status, title, view, nextId>>

\* Mutant: the hashchange listener navigates without gateByStatus.
DispatchNoGate ==
  /\ queued > 0
  /\ queued' = queued - 1
  /\ IF listening
     THEN /\ title' = NormalizeRoute(hash)
          /\ handlers' = handlers \cup
               {[id |-> nextId + 1, boot |-> FALSE, pc |-> "fetch", route |-> NormalizeRoute(hash)]}
          /\ nextId' = nextId + 1
     ELSE UNCHANGED <<title, handlers, nextId>>
  /\ UNCHANGED <<hash, listening, subject, status, view>>

\* A queued hashchange is dispatched: the listener starts a handler, or,
\* before boot() has added it, nothing hears the event.
Dispatch ==
  /\ queued > 0
  /\ queued' = queued - 1
  /\ IF listening
     THEN /\ handlers' = handlers \cup
               {[id |-> nextId + 1, boot |-> FALSE, pc |-> "start", route |-> "none"]}
          /\ nextId' = nextId + 1
     ELSE UNCHANGED <<handlers, nextId>>
  /\ UNCHANGED <<hash, listening, subject, status, title, view>>

\* The user follows a link or edits the address bar.
Click(x) ==
  /\ SetHash(x)
  /\ UNCHANGED <<listening, subject, status, title, view, handlers, nextId>>

\* The logout handler (wired first thing in boot): reset Auth, go to welcome.
Logout ==
  /\ subject' = FALSE
  /\ SetHash(Welcome)
  /\ UNCHANGED <<listening, status, title, view, handlers, nextId>>

\* The token form succeeds: Auth is loaded and the form goes to welcome.
LoginDone ==
  /\ view = Login
  /\ subject' = TRUE
  /\ SetHash(Welcome)
  /\ UNCHANGED <<listening, status, title, view, handlers, nextId>>

Next ==
  \/ \E h \in handlers : \/ GateStart(h) \/ FetchOk(h) \/ FetchFails(h) \/ InitDone(h)
                         \/ \E st \in {status, "failed"} : StatusAnswer(h, st)
  \/ Dispatch \/ Logout \/ LoginDone
  \/ \E x \in Hashes : Click(x)

Spec == Init /\ [][Next]_vars

-----------------------------------------------------------------------------
Handler == [id : Nat \ {0}, boot : BOOLEAN, pc : {"start", "status", "fetch", "init"},
            route : Routes \cup {"none"}]

TypeOK ==
  /\ hash \in Hashes /\ queued \in Nat /\ listening \in BOOLEAN
  /\ subject \in BOOLEAN /\ status \in Statuses
  /\ title \in Routes \cup {"none"} /\ view \in Routes \cup {"none"}
  /\ handlers \subseteq Handler /\ nextId \in Nat

\* The pages that only an unsealed keeper may show: all but the exempt
\* ones and the three that gateByStatus itself redirects to.
Guarded == Routes \ (Exempt \cup {InitRoute, Unseal, Unavailable})

(***************************************************************************)
(* A page of a guarded route is on screen only while the keeper is         *)
(* unsealed: every path to navigate(), at boot and on every hashchange,    *)
(* goes through gateByStatus, and the gate's redirect is what the same     *)
(* handler then navigates to (lines 42-50, 90-133).                        *)
(***************************************************************************)
GateEnforced == view \in Guarded => status = "UNSEALED"

(***************************************************************************)
(* Once every handler has finished and every hashchange was dispatched,    *)
(* the title is that of location.hash and the page on screen is its page   *)
(* (or nothing, when its HTML failed to load): the router's purpose,       *)
(* stated by no comment or test.                                           *)
(***************************************************************************)
SettledViewMatchesHash ==
  (handlers = {} /\ queued = 0) => (view \in {NormalizeRoute(hash), "none"} /\ title = NormalizeRoute(hash))
=============================================================================
