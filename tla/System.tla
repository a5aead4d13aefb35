------------------------------- MODULE System -------------------------------
(***************************************************************************)
(* The system page of system.js: load() clears the capability alerts and  *)
(* the page alerts, shows the LOADING badge and awaits api.getSystem; the  *)
(* answer is normalised (normalizePeers, the Number(...) || fallbacks),    *)
(* classified by clusterCapability and rendered into the cards, the        *)
(* capability alert box and the badge.  init() awaits a first load();     *)
(* the Refresh button calls load() again with no guard, so loads overlap.  *)
(*                                                                         *)
(* The page's elements belong to one visit of the page: a load that ends   *)
(* after the user navigated away writes into detached elements, but the   *)
(* page alerts (showAlert, clearAlerts of ui.js) are global.               *)
(***************************************************************************)
EXTENDS Naturals, Sequences, FiniteSets

CONSTANTS Snapshots, \* what api.getSystem may answer
          Ids,       \* peer ids
          RawStates, \* peer states as the server spells them
          Bad,       \* a JSON value Number() turns into NaN
          None,      \* null or a missing field
          MaxLoads,  \* load() calls in a behaviour
          MaxVisits  \* visits of the system page in a behaviour

ASSUME SystemAssumption ==
  /\ MaxLoads \in Nat /\ MaxVisits \in Nat
  /\ None \notin {"ready", "not_ready"}   \* null is no state string
  /\ \A s \in Snapshots :
       /\ s.id \in Ids \cup {None} /\ s.state \in RawStates \cup {None}
       /\ DOMAIN s.peers \subseteq Ids /\ \A i \in DOMAIN s.peers : s.peers[i] \in RawStates
       /\ IsFiniteSet(DOMAIN s.peers)   \* a JSON object has finitely many keys
       /\ s.totalPeers \in Nat \cup {Bad, None} /\ s.threshold \in Nat \cup {Bad, None}

VARIABLES view,      \* "system" or "other": the page on screen
          visit,     \* visits of the system page so far; the current one
          loads,     \* load() calls awaiting getSystem
          nextLoad,  \* load() calls so far
          badge,     \* the top badge of the current visit
          card,      \* what the cards and the table of the current visit show
          box,       \* the capability alerts of els.alerts, in order
          pageAlert, \* the alert of ui.js's alert area: None or [kind, visit]
          okDone     \* ghost: loads of the current visit whose answer was rendered

vars == <<view, visit, loads, nextLoad, badge, card, box, pageAlert, okDone>>

\* String(x).toUpperCase() of a state ("" for null).
Upper(x) == CASE x = "ready"     -> "READY"
              [] x = "not_ready" -> "NOT_READY"
              [] x = None        -> ""
              [] OTHER           -> x

\* Mutant: the peer states are taken without toUpperCase().
NormalizePeersRaw(sys) ==
  LET listed == {[id |-> i, state |-> sys.peers[i]] : i \in DOMAIN sys.peers}
  IN  IF sys.id # None /\ Upper(sys.state) # "" /\ sys.id \notin DOMAIN sys.peers
      THEN listed \cup {[id |-> sys.id, state |-> Upper(sys.state)]}
      ELSE listed

\* normalizePeers(sys): one entry per key of sys.peers, and this node when
\* it has an id and a state and is not among them (the sort is layout).
NormalizePeers(sys) ==
  LET listed == {[id |-> i, state |-> Upper(sys.peers[i])] : i \in DOMAIN sys.peers}
  IN  IF sys.id # None /\ Upper(sys.state) # "" /\ sys.id \notin DOMAIN sys.peers
      THEN listed \cup {[id |-> sys.id, state |-> Upper(sys.state)]}
      ELSE listed

ReadyCount(sys) == Cardinality({e \in NormalizePeers(sys) : e.state = "READY"})

\* Mutant: "??" for "||", so that a zero count is kept.
NumberOrNullish(v, fallback) == IF v \in Nat THEN v ELSE fallback

\* Number(v) || fallback, for v a count, null or a non-number.
NumberOr(v, fallback) == IF v \in Nat \ {0} THEN v ELSE fallback

\* Number(sys.totalPeers ?? peerEntries.length ?? 0) || peerEntries.length.
TotalPeers(sys) == NumberOr(sys.totalPeers, Cardinality(NormalizePeers(sys)))

\* Number(sys.threshold ?? 0) || 0.
Threshold(sys) == NumberOr(sys.threshold, 0)

\* clusterCapability(readyCount, threshold, totalPeers).
ClusterCapability(r, t, n) ==
  CASE t > 0 /\ r < t -> "UNAVAILABLE"
    [] r < n          -> "LIMITED"
    [] OTHER          -> "READY"

\* What the rest of load() renders from the answer of load number n.
Render(n, sys) ==
  [n |-> n, ready |-> ReadyCount(sys), total |-> TotalPeers(sys),
   threshold |-> Threshold(sys), rows |-> NormalizePeers(sys),
   cap |-> ClusterCapability(ReadyCount(sys), Threshold(sys), TotalPeers(sys))]

\* A load's writes to the page's elements are seen only during its visit.
Live(l) == view = "system" /\ l.visit = visit

\* load() up to its await: clear(els.alerts), clearAlerts(), LOADING.
StartLoad(v) ==
  /\ nextLoad < MaxLoads
  /\ loads' = loads \cup {[n |-> nextLoad + 1, visit |-> v, served |-> None]}
  /\ nextLoad' = nextLoad + 1
  /\ box' = <<>> /\ pageAlert' = None /\ badge' = "LOADING"

Init ==
  /\ view = "other" /\ visit = 0
  /\ loads = {} /\ nextLoad = 0
  /\ badge = "none" /\ card = None /\ box = <<>> /\ pageAlert = None /\ okDone = {}

\* navigate("#/system"): clearAlerts(), a fresh page, init() calls load().
Visit ==
  /\ view = "other" /\ visit < MaxVisits
  /\ view' = "system" /\ visit' = visit + 1
  /\ card' = None /\ okDone' = {}
  /\ StartLoad(visit + 1)

\* The Refresh button.
Refresh ==
  /\ view = "system"
  /\ StartLoad(visit)
  /\ UNCHANGED <<view, visit, card, okDone>>

\* The server serves a request: its answer is the cluster as it is then,
\* which peers coming and going may have made any snapshot.
Serve(l) ==
  /\ l.served = None
  /\ \E s \in Snapshots : loads' = (loads \ {l}) \cup {[l EXCEPT !.served = s]}
  /\ UNCHANGED <<view, visit, nextLoad, badge, card, box, pageAlert, okDone>>

\* getSystem resolves: clearAlerts(), then the rendering into the visit's
\* elements: the cards, one capability alert appended, the badge.
Answer(l) ==
  /\ l.served # None
  /\ loads' = loads \ {l}
  /\ pageAlert' = None
  /\ IF Live(l)
     THEN /\ card' = Render(l.n, l.served)
          /\ box' = Append(box, Render(l.n, l.served).cap)
          /\ badge' = Render(l.n, l.served).cap
          /\ okDone' = okDone \cup {l.n}
     ELSE UNCHANGED <<card, box, badge, okDone>>
  /\ UNCHANGED <<view, visit, nextLoad>>

\* Mutant: the catch shows the alert and returns without setTopBadge.
FailNoBadge(l) ==
  /\ loads' = loads \ {l}
  /\ pageAlert' = [kind |-> "danger", visit |-> l.visit]
  /\ UNCHANGED <<view, visit, nextLoad, badge, card, box, okDone>>

\* getSystem throws, before or after the server saw the request:
\* showAlert("danger", ...) and the UNAVAILABLE badge.
Fail(l) ==
  /\ loads' = loads \ {l}
  /\ pageAlert' = [kind |-> "danger", visit |-> l.visit]
  /\ badge' = IF Live(l) THEN "UNAVAILABLE" ELSE badge
  /\ UNCHANGED <<view, visit, nextLoad, card, box, okDone>>

\* The user goes to another page: navigate() runs clearAlerts().
Leave ==
  /\ view = "system"
  /\ view' = "other" /\ pageAlert' = None
  /\ UNCHANGED <<visit, loads, nextLoad, badge, card, box, okDone>>

\* The other page shows an alert of its own.
OtherAlert ==
  /\ view = "other"
  /\ pageAlert' = [kind |-> "other", visit |-> 0]
  /\ UNCHANGED <<view, visit, loads, nextLoad, badge, card, box, okDone>>

Next ==
  \/ Visit \/ Refresh \/ Leave \/ OtherAlert
  \/ \E l \in loads : Serve(l) \/ Answer(l) \/ Fail(l)

Spec == Init /\ [][Next]_vars

-----------------------------------------------------------------------------
Caps == {"READY", "LIMITED", "UNAVAILABLE"}
Row == [id : Ids, state : {Upper(x) : x \in RawStates}]
Card == [n : Nat \ {0}, ready : Nat, total : Nat, threshold : Nat, rows : SUBSET Row, cap : Caps]

TypeOK ==
  /\ view \in {"system", "other"} /\ visit \in 0..MaxVisits
  /\ loads \subseteq [n : 1..MaxLoads, visit : 1..MaxVisits, served : Snapshots \cup {None}]
  /\ nextLoad \in 0..MaxLoads
  /\ badge \in Caps \cup {"LOADING", "none"}
  /\ card \in Card \cup {None}
  /\ box \in Seq(Caps)
  /\ pageAlert \in [kind : {"danger", "other"}, visit : 0..MaxVisits] \cup {None}
  /\ okDone \subseteq 1..MaxLoads

(***************************************************************************)
(* Once no load of the page on screen is awaiting getSystem, the badge no  *)
(* longer says LOADING: both the answer and the catch of load() set it     *)
(* (lines 58, 84-86), however the loads overlap.                           *)
(***************************************************************************)
BadgeSettles ==
  (view = "system" /\ \A l \in loads : l.visit # visit) => badge # "LOADING"

(***************************************************************************)
(* The capability card says "Ready" only when every peer of the table is   *)
(* READY, for an answer whose totalPeers, if a positive number, counts the *)
(* peers it lists: the "|| peerEntries.length" fallbacks of line 70 stand  *)
(* for a totalPeers that is missing, zero or not a number.                 *)
(***************************************************************************)
CardReadyMeansAllReady ==
  (card # None /\ card.cap = "READY") => \A e \in card.rows : e.state = "READY"

(***************************************************************************)
(* An error alert of the system page is shown only while that visit of the *)
(* page is on screen.  The catch of load() (line 57) calls the global      *)
(* showAlert whenever getSystem fails, even after navigate() has replaced  *)
(* the page.                                                               *)
(***************************************************************************)
AlertFromShownPage ==
  (pageAlert # None /\ pageAlert.kind = "danger") => (view = "system" /\ pageAlert.visit = visit)

(***************************************************************************)
(* The cards show the answer of the latest load() whose answer was         *)
(* rendered: an earlier Refresh answered late must not overwrite a later   *)
(* one (lines 45, 55, 74-82 render whatever answer arrives last).          *)
(***************************************************************************)
ShowsLatestAnswer == card # None => \A k \in okDone : k <= card.n

(***************************************************************************)
(* The capability alert box holds the one alert of the last answer: load() *)
(* empties it before its await (line 49) and the answer adds one alert     *)
(* after it (line 74), so two overlapping loads both add theirs.           *)
(***************************************************************************)
OneCapabilityAlert == Len(box) <= 1
=============================================================================
