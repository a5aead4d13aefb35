----------------------------- MODULE RouterProofs -----------------------------
(***************************************************************************)
(* Proofs about Router for every table of routes, every set of hashes,    *)
(* permissions and keeper states: the state is well typed, and no page of *)
(* a guarded route is on screen unless the keeper is unsealed.            *)
(***************************************************************************)
EXTENDS Router, TLAPS

(***************************************************************************)
(* GateEnforced is not inductive: a handler that has passed the gate and   *)
(* awaits its page's HTML or module will put its route on screen later.   *)
(* The strengthening says such a handler's route is guarded only when the *)
(* keeper is unsealed.                                                     *)
(***************************************************************************)
PendingGuardedUnsealed ==
  \A h \in handlers : h.pc \in {"fetch", "init"} /\ h.route \in Guarded
                        => status = "UNSEALED"

RouterInv == TypeOK /\ PendingGuardedUnsealed /\ GateEnforced

\* The gate's own routes are not guarded.
LEMMA GateRoutesUnguarded ==
  {Welcome, Login, Oidc, InitRoute, Unseal, Unavailable} \cap Guarded = {}
BY DEF Guarded, Exempt, Welcome, Login, Oidc, InitRoute, Unseal, Unavailable

\* normalizeRoute returns a key of ROUTES.
LEMMA NormalizeRouteType ==
  ASSUME NEW x PROVE NormalizeRoute(x) \in Routes
BY RouterAssumption DEF NormalizeRoute, Exempt, Welcome

(***************************************************************************)
(* Where gateByStatus sends an answer of getStatus (lines 102-132): a hash *)
(* the address bar can hold, and a guarded route only when the keeper      *)
(* answered UNSEALED, which it does only when it is.                       *)
(***************************************************************************)
LEMMA GateTargetFacts ==
  ASSUME TypeOK, NEW st \in {status, "failed"}
  PROVE  /\ GateTarget(st) \in Hashes
         /\ NormalizeRoute(GateTarget(st)) \in Guarded => status = "UNSEALED"
<1>1. st \in {"UNINITIALIZED", "SEALED", "UNSEALED", "failed"}
  BY RouterAssumption DEF TypeOK
<1>2. GateTarget(st) \in {InitRoute, Unseal, Unavailable} => NormalizeRoute(GateTarget(st)) \notin Guarded
  BY GateRoutesUnguarded, RouterAssumption DEF NormalizeRoute, Exempt, Welcome, Login, Oidc
<1>3. {InitRoute, Unseal, Unavailable} \subseteq Hashes
  BY RouterAssumption DEF Exempt
<1>4. CASE st = "UNINITIALIZED"
  BY <1>2, <1>3, <1>4 DEF GateTarget
<1>5. CASE st = "SEALED"
  BY <1>2, <1>3, <1>4, <1>5 DEF GateTarget
<1>6. CASE st = "UNSEALED"
  BY <1>6 DEF GateTarget, TypeOK
<1>7. CASE st = "failed"
  BY <1>2, <1>3, <1>7 DEF GateTarget
<1>. QED
  BY <1>1, <1>4, <1>5, <1>6, <1>7

-----------------------------------------------------------------------------
LEMMA InitRouterInv == Init => RouterInv
<1> SUFFICES ASSUME Init PROVE RouterInv
  OBVIOUS
<1>1. TypeOK
  <2>1. handlers \subseteq Handler
    BY DEF Init, Handler
  <2>2. title \in Routes \cup {"none"} /\ view \in Routes \cup {"none"}
    BY DEF Init
  <2>. QED
    BY <2>1, <2>2 DEF Init, TypeOK
<1>2. PendingGuardedUnsealed /\ GateEnforced
  BY RouterAssumption DEF Init, PendingGuardedUnsealed, GateEnforced, Guarded
<1>. QED
  BY <1>1, <1>2 DEF RouterInv

(***************************************************************************)
(* navigate(route) up to its await, by a handler of the state: the handler *)
(* now awaits the HTML of a key of ROUTES, and is typed.                   *)
(***************************************************************************)
LEMMA NavigateFacts ==
  ASSUME TypeOK, NEW h \in handlers, NEW r \in Routes, Navigate(h, r)
  PROVE  /\ handlers' \subseteq Handler /\ title' \in Routes
         /\ \A g \in handlers' : g \in handlers \/ (g.pc = "fetch" /\ g.route = r)
BY DEF Navigate, TypeOK, Handler

LEMMA NextRouterInv == RouterInv /\ [Next]_vars => RouterInv'
<1> SUFFICES ASSUME RouterInv, [Next]_vars PROVE RouterInv'
  OBVIOUS
<1>0. TypeOK /\ PendingGuardedUnsealed /\ GateEnforced
  BY DEF RouterInv
<1>1. ASSUME NEW h \in handlers, GateStart(h) PROVE RouterInv'
  <2>0. UNCHANGED <<listening, subject, status, view, nextId>>
    BY <1>1 DEF GateStart
  <2>1. CASE /\ NormalizeRoute(hash) \in Exempt /\ UNCHANGED <<hash, queued>>
             /\ Navigate(h, NormalizeRoute(hash))
    <3>1. NormalizeRoute(hash) \notin Guarded
      BY <2>1 DEF Guarded
    <3>. QED
      BY <1>0, <2>0, <2>1, <3>1, NormalizeRouteType, NavigateFacts
         DEF RouterInv, TypeOK, PendingGuardedUnsealed, GateEnforced
  <2>2. CASE /\ NormalizeRoute(hash) \notin Exempt /\ ~subject
             /\ SetHash(Welcome) /\ Navigate(h, Welcome)
    <3>1. Welcome \in Routes /\ Welcome \notin Guarded
      BY GateRoutesUnguarded, RouterAssumption DEF Exempt
    <3>2. hash' \in Hashes /\ queued' \in Nat
      BY <1>0, <2>2, <3>1, RouterAssumption DEF SetHash, TypeOK
    <3>. QED
      BY <1>0, <2>0, <2>2, <3>1, <3>2, NavigateFacts
         DEF RouterInv, TypeOK, PendingGuardedUnsealed, GateEnforced
  <2>3. CASE /\ NormalizeRoute(hash) \notin Exempt /\ subject
             /\ handlers' = (handlers \ {h}) \cup {[h EXCEPT !.pc = "status"]}
             /\ UNCHANGED <<hash, queued, title>>
    <3>1. handlers' \subseteq Handler
      BY <1>0, <2>3 DEF TypeOK, Handler
    <3>2. \A g \in handlers' : g \in handlers \/ g.pc = "status"
      BY <1>0, <2>3 DEF TypeOK, Handler
    <3>3. PendingGuardedUnsealed'
      BY <1>0, <2>0, <3>2 DEF PendingGuardedUnsealed
    <3>. QED
      BY <1>0, <2>0, <2>3, <3>1, <3>3 DEF RouterInv, TypeOK, GateEnforced
  <2>. QED
    BY <1>1, <2>1, <2>2, <2>3 DEF GateStart
<1>2. ASSUME NEW h \in handlers, NEW st \in {status, "failed"}, StatusAnswer(h, st)
      PROVE  RouterInv'
  <2>1. /\ SetHash(GateTarget(st)) /\ Navigate(h, NormalizeRoute(GateTarget(st)))
        /\ UNCHANGED <<listening, subject, status, view, nextId>>
    BY <1>2 DEF StatusAnswer
  <2>2. /\ GateTarget(st) \in Hashes
        /\ NormalizeRoute(GateTarget(st)) \in Guarded => status = "UNSEALED"
    BY <1>0, GateTargetFacts
  <2>3. hash' \in Hashes /\ queued' \in Nat
    BY <1>0, <2>1, <2>2 DEF SetHash, TypeOK
  <2>. QED
    BY <1>0, <2>1, <2>2, <2>3, NormalizeRouteType, NavigateFacts
       DEF RouterInv, TypeOK, PendingGuardedUnsealed, GateEnforced
<1>3. ASSUME NEW h \in handlers, FetchOk(h) PROVE RouterInv'
  <2>1. h.pc = "fetch" /\ h \in Handler
    BY <1>0, <1>3 DEF FetchOk, TypeOK
  <2>2. handlers' \subseteq Handler /\ view' \in Routes \cup {"none"}
    BY <1>0, <1>3, <2>1 DEF FetchOk, TypeOK, Handler
  <2>3. view' \in Guarded => status' = "UNSEALED"
    BY <1>0, <1>3, <2>1 DEF FetchOk, PendingGuardedUnsealed
  <2>4. PendingGuardedUnsealed'
    <3>1. \A g \in handlers' : g \in handlers \/ (g.pc = "init" /\ g.route = h.route)
      BY <1>3, <2>1 DEF FetchOk, Handler
    <3>. QED
      BY <1>0, <1>3, <2>1, <3>1 DEF FetchOk, PendingGuardedUnsealed
  <2>. QED
    BY <1>0, <1>3, <2>2, <2>3, <2>4 DEF FetchOk, RouterInv, TypeOK, GateEnforced
<1>4. ASSUME NEW h \in handlers, FetchFails(h) \/ InitDone(h) PROVE RouterInv'
  <2>1. /\ handlers' = handlers \ {h} /\ listening' \in BOOLEAN
        /\ view' \in {view, "none"}
        /\ UNCHANGED <<hash, queued, subject, status, title, nextId>>
    BY <1>0, <1>4 DEF FetchFails, InitDone, Finish, TypeOK, Handler
  <2>. QED
    BY <1>0, <2>1, RouterAssumption
       DEF RouterInv, TypeOK, PendingGuardedUnsealed, GateEnforced, Guarded
<1>5. CASE Dispatch
  <2>1. /\ queued' = queued - 1 /\ queued > 0
        /\ \/ /\ handlers' = handlers \cup
                   {[id |-> nextId + 1, boot |-> FALSE, pc |-> "start", route |-> "none"]}
              /\ nextId' = nextId + 1
           \/ UNCHANGED <<handlers, nextId>>
        /\ UNCHANGED <<hash, listening, subject, status, title, view>>
    BY <1>5 DEF Dispatch
  <2>2. queued' \in Nat /\ nextId' \in Nat
    BY <1>0, <2>1 DEF TypeOK
  <2>3. handlers' \subseteq Handler
    <3>1. [id |-> nextId + 1, boot |-> FALSE, pc |-> "start", route |-> "none"] \in Handler
      BY <1>0 DEF TypeOK, Handler
    <3>. QED
      BY <1>0, <2>1, <3>1 DEF TypeOK
  <2>4. PendingGuardedUnsealed'
    BY <1>0, <2>1 DEF PendingGuardedUnsealed
  <2>. QED
    BY <1>0, <2>1, <2>2, <2>3, <2>4 DEF RouterInv, TypeOK, GateEnforced
<1>6. ASSUME NEW x \in Hashes, Click(x) PROVE RouterInv'
  BY <1>0, <1>6 DEF Click, SetHash, RouterInv, TypeOK, PendingGuardedUnsealed, GateEnforced
<1>7. CASE Logout \/ LoginDone
  <2>1. /\ subject' \in BOOLEAN /\ SetHash(Welcome)
        /\ UNCHANGED <<listening, status, title, view, handlers, nextId>>
    BY <1>7 DEF Logout, LoginDone
  <2>2. Welcome \in Hashes
    BY RouterAssumption DEF Exempt
  <2>. QED
    BY <1>0, <2>1, <2>2 DEF SetHash, RouterInv, TypeOK, PendingGuardedUnsealed, GateEnforced
<1>8. CASE UNCHANGED vars
  BY <1>0, <1>8 DEF vars, RouterInv, TypeOK, PendingGuardedUnsealed, GateEnforced
<1>. QED
  BY <1>1, <1>2, <1>3, <1>4, <1>5, <1>6, <1>7, <1>8 DEF Next

LEMMA RouterInvariant == Spec => []RouterInv
BY InitRouterInv, NextRouterInv, PTL DEF Spec

\* Type correctness of the router's state and of its handlers in flight.
THEOREM RouterTypeCorrect == Spec => []TypeOK
<1>1. RouterInv => TypeOK
  BY DEF RouterInv
<1>. QED
  BY <1>1, RouterInvariant, PTL

(***************************************************************************)
(* A page of a guarded route is on screen only while the keeper is         *)
(* unsealed, however boot, hashchange handlers, getStatus answers, page    *)
(* loads, clicks, logins and logouts interleave: every navigate() is       *)
(* preceded by gateByStatus in the same handler, whose redirect the        *)
(* handler then follows (ui.js lines 42-50, 90-133).                        *)
(***************************************************************************)
THEOREM GuardedPagesNeedUnsealed == Spec => []GateEnforced
<1>1. RouterInv => GateEnforced
  BY DEF RouterInv
<1>. QED
  BY <1>1, RouterInvariant, PTL
=============================================================================
