---------------------------- MODULE SystemProofs ----------------------------
(***************************************************************************)
(* Proofs about System for every set of answers and every bound: the badge *)
(* of the page on screen does not stay on LOADING once its loads are over, *)
(* the capability card says Ready only when every peer is READY, and every *)
(* state is typed (SystemTypeCorrect).                                     *)
(***************************************************************************)
EXTENDS System, FiniteSetTheorems, Functions, TLAPS

\* A load is a record of its number, its visit and what was served.
LoadsOK == loads \subseteq [n : Nat, visit : Nat, served : Snapshots \cup {None}]

\* The inductive invariant: the loads are records, and the property.
BInv == LoadsOK /\ visit \in Nat /\ nextLoad \in Nat /\ BadgeSettles

\* clusterCapability answers one of its three strings, never LOADING.
LEMMA CapNotLoading ==
  ASSUME NEW r, NEW t, NEW c
  PROVE  ClusterCapability(r, t, c) # "LOADING"
BY DEF ClusterCapability

LEMMA BInvInductive == Spec => []BInv
<1>1. Init => BInv
  BY DEF Init, BInv, LoadsOK, BadgeSettles
<1>2. BInv /\ [Next]_vars => BInv'
  <2> SUFFICES ASSUME BInv, [Next]_vars PROVE BInv'
    OBVIOUS
  <2>1. CASE Visit
    <3>1. /\ loads' = loads \cup {[n |-> nextLoad + 1, visit |-> visit + 1, served |-> None]}
          /\ view' = "system" /\ visit' = visit + 1
          /\ nextLoad' = nextLoad + 1 /\ badge' = "LOADING"
      BY <2>1 DEF Visit, StartLoad
    <3>2. LoadsOK'
      BY <3>1 DEF BInv, LoadsOK
    <3>3. \E l \in loads' : l.visit = visit'
      <4>1. [n |-> nextLoad + 1, visit |-> visit + 1, served |-> None] \in loads'
        BY <3>1
      <4>2. [n |-> nextLoad + 1, visit |-> visit + 1, served |-> None].visit = visit'
        BY <3>1
      <4>. QED
        BY <4>1, <4>2
    <3>4. BadgeSettles'
      BY <3>3 DEF BadgeSettles
    <3>. QED
      BY <3>1, <3>2, <3>4 DEF BInv
  <2>2. CASE Refresh
    <3>1. /\ loads' = loads \cup {[n |-> nextLoad + 1, visit |-> visit, served |-> None]}
          /\ view' = "system" /\ visit' = visit
          /\ nextLoad' = nextLoad + 1 /\ badge' = "LOADING"
      BY <2>2 DEF Refresh, StartLoad
    <3>2. LoadsOK'
      BY <3>1 DEF BInv, LoadsOK
    <3>3. \E l \in loads' : l.visit = visit'
      <4>1. [n |-> nextLoad + 1, visit |-> visit, served |-> None] \in loads'
        BY <3>1
      <4>2. [n |-> nextLoad + 1, visit |-> visit, served |-> None].visit = visit'
        BY <3>1
      <4>. QED
        BY <4>1, <4>2
    <3>4. BadgeSettles'
      BY <3>3 DEF BadgeSettles
    <3>. QED
      BY <3>1, <3>2, <3>4 DEF BInv
  <2>3. CASE Leave
    BY <2>3 DEF Leave, BInv, LoadsOK, BadgeSettles
  <2>4. CASE OtherAlert
    BY <2>4 DEF OtherAlert, BInv, LoadsOK, BadgeSettles
  <2>5. ASSUME NEW l \in loads, Serve(l) PROVE BInv'
    <3>1. PICK s \in Snapshots : loads' = (loads \ {l}) \cup {[l EXCEPT !.served = s]}
      BY <2>5 DEF Serve
    <3>2. [l EXCEPT !.served = s] \in [n : Nat, visit : Nat, served : Snapshots \cup {None}]
          /\ [l EXCEPT !.served = s].visit = l.visit
      BY DEF BInv, LoadsOK
    <3>. QED
      BY <2>5, <3>1, <3>2 DEF Serve, BInv, LoadsOK, BadgeSettles
  <2>6. ASSUME NEW l \in loads, Answer(l) PROVE BInv'
    <3>1. CASE Live(l)
      BY <2>6, <3>1, CapNotLoading DEF Answer, Render, BInv, LoadsOK, BadgeSettles
    <3>2. CASE ~Live(l)
      BY <2>6, <3>2 DEF Answer, Live, BInv, LoadsOK, BadgeSettles
    <3>. QED
      BY <3>1, <3>2
  <2>7. ASSUME NEW l \in loads, Fail(l) PROVE BInv'
    BY <2>7 DEF Fail, Live, BInv, LoadsOK, BadgeSettles
  <2>8. CASE UNCHANGED vars
    BY <2>8 DEF vars, BInv, LoadsOK, BadgeSettles
  <2>. QED
    BY <2>1, <2>2, <2>3, <2>4, <2>5, <2>6, <2>7, <2>8 DEF Next
<1>. QED
  BY <1>1, <1>2, PTL DEF Spec

(***************************************************************************)
(* Once no load() of the visit on screen is awaiting getSystem, the badge  *)
(* shows the outcome of one of them: both the answer and the catch of      *)
(* load() leave LOADING, for every interleaving of overlapping loads.      *)
(***************************************************************************)
THEOREM BadgeSettlesAlways == Spec => []BadgeSettles
BY BInvInductive, PTL DEF BInv

-----------------------------------------------------------------------------
(***************************************************************************)
(* The capability card.  A positive totalPeers counts at least the peers   *)
(* of the table: what the comment of CardReadyMeansAllReady takes of the   *)
(* server.                                                                 *)
(***************************************************************************)
CountsHonest(sys) ==
  sys.totalPeers \in Nat \ {0} => sys.totalPeers >= Cardinality(NormalizePeers(sys))

\* normalizePeers of a finite peer map is a finite table.
LEMMA RowsFinite ==
  ASSUME NEW sys, IsFiniteSet(DOMAIN sys.peers)
  PROVE  IsFiniteSet(NormalizePeers(sys))
<1> DEFINE listed == {[id |-> i, state |-> Upper(sys.peers[i])] : i \in DOMAIN sys.peers}
           g == [i \in DOMAIN sys.peers |-> [id |-> i, state |-> Upper(sys.peers[i])]]
<1>1. g \in Surjection(DOMAIN sys.peers, listed)
  BY DEF Surjection
<1>2. IsFiniteSet(listed)
  BY <1>1, FS_Surjection
<1>3. IsFiniteSet(listed \cup {[id |-> sys.id, state |-> Upper(sys.state)]})
  BY <1>2, FS_AddElement
<1>. QED
  BY <1>2, <1>3 DEF NormalizePeers

\* clusterCapability says READY only when no guard of its two other
\* answers holds, so only when the ready peers are at least the total.
LEMMA ReadyCapNotShort ==
  ASSUME NEW r, NEW t, NEW c, ClusterCapability(r, t, c) = "READY"
  PROVE  ~(r < c)
BY DEF ClusterCapability

(***************************************************************************)
(* The card of an answer says READY only when every row of its table is    *)
(* READY: the ready rows are a subset of the table with as many elements.  *)
(***************************************************************************)
LEMMA RenderReadyAllReady ==
  ASSUME NEW sys \in Snapshots, CountsHonest(sys), NEW n,
         Render(n, sys).cap = "READY"
  PROVE  \A e \in Render(n, sys).rows : e.state = "READY"
<1> DEFINE rows == NormalizePeers(sys)
           R == {e \in rows : e.state = "READY"}
<1>1. IsFiniteSet(rows)
  <2>1. IsFiniteSet(DOMAIN sys.peers)
    BY SystemAssumption
  <2>. QED
    BY <2>1, RowsFinite
<1>2. R \subseteq rows /\ IsFiniteSet(R) /\ Cardinality(R) <= Cardinality(rows)
  BY <1>1, FS_Subset
<1>3. Cardinality(R) \in Nat /\ Cardinality(rows) \in Nat
  BY <1>1, <1>2, FS_CardinalityType
<1>4. ~(ReadyCount(sys) < TotalPeers(sys))
  BY ReadyCapNotShort DEF Render
<1>5. TotalPeers(sys) >= Cardinality(rows)
  BY <1>3 DEF TotalPeers, NumberOr, CountsHonest
<1>6. Cardinality(R) >= Cardinality(rows)
  <2>1. TotalPeers(sys) \in Nat
    BY <1>3 DEF TotalPeers, NumberOr
  <2>. QED
    BY <1>3, <1>4, <1>5, <2>1 DEF ReadyCount
<1>7. R = rows
  BY <1>1, <1>2, <1>3, <1>6, FS_Subset
<1>. QED
  BY <1>7 DEF Render

(***************************************************************************)
(* The capability card says "Ready" only when every peer of its table is   *)
(* READY, whatever answers arrive in whatever order, for answers whose     *)
(* positive totalPeers counts at least the peers they list                 *)
(* (system.js lines 64-82, 89-93).  It rests on BInv for the loads being  *)
(* records whose served answer is one of Snapshots.                       *)
(***************************************************************************)
THEOREM ReadyCardAllPeersReady ==
  ASSUME \A sys \in Snapshots : CountsHonest(sys)
  PROVE  Spec => []CardReadyMeansAllReady
<1>1. Init => CardReadyMeansAllReady
  BY DEF Init, CardReadyMeansAllReady
<1>2. BInv /\ CardReadyMeansAllReady /\ [Next]_vars => CardReadyMeansAllReady'
  <2> SUFFICES ASSUME BInv, CardReadyMeansAllReady, [Next]_vars
               PROVE  CardReadyMeansAllReady'
    OBVIOUS
  <2>1. CASE Visit
    BY <2>1 DEF Visit, CardReadyMeansAllReady
  <2>2. ASSUME NEW l \in loads, Answer(l) PROVE CardReadyMeansAllReady'
    <3>1. l.served \in Snapshots
      BY <2>2 DEF Answer, BInv, LoadsOK
    <3>2. CASE Live(l)
      <4>1. card' = Render(l.n, l.served)
        BY <2>2, <3>2 DEF Answer
      <4>. QED
        BY <3>1, <4>1, RenderReadyAllReady DEF CardReadyMeansAllReady
    <3>3. CASE ~Live(l)
      BY <2>2, <3>3 DEF Answer, CardReadyMeansAllReady
    <3>. QED
      BY <3>2, <3>3
  <2>3. CASE Refresh \/ Leave \/ OtherAlert \/ UNCHANGED vars
    BY <2>3 DEF Refresh, Leave, OtherAlert, vars, CardReadyMeansAllReady
  <2>4. ASSUME NEW l \in loads, Serve(l) \/ Fail(l) PROVE CardReadyMeansAllReady'
    BY <2>4 DEF Serve, Fail, CardReadyMeansAllReady
  <2>. QED
    BY <2>1, <2>2, <2>3, <2>4 DEF Next
<1>. QED
  BY <1>1, <1>2, BInvInductive, PTL DEF Spec
-----------------------------------------------------------------------------
(***************************************************************************)
(* Type correctness.  What load() renders from an answer is a card: its    *)
(* table holds the listed peers and this node only when it has an id and   *)
(* a state (normalizePeers), and its counts are numbers whatever the       *)
(* answer's totalPeers and threshold (the Number(...) || fallbacks).       *)
(***************************************************************************)
LEMMA RowsTyped ==
  ASSUME NEW sys \in Snapshots
  PROVE  NormalizePeers(sys) \subseteq Row
<1> DEFINE listed == {[id |-> i, state |-> Upper(sys.peers[i])] : i \in DOMAIN sys.peers}
           self == [id |-> sys.id, state |-> Upper(sys.state)]
<1>1. /\ DOMAIN sys.peers \subseteq Ids
      /\ \A i \in DOMAIN sys.peers : sys.peers[i] \in RawStates
      /\ sys.id \in Ids \cup {None} /\ sys.state \in RawStates \cup {None}
  BY SystemAssumption
<1>2. listed \subseteq Row
  BY <1>1 DEF Row
<1>3. sys.id # None /\ Upper(sys.state) # "" => self \in Row
  <2> SUFFICES ASSUME sys.id # None, Upper(sys.state) # "" PROVE self \in Row
    OBVIOUS
  <2>1. sys.state # None
    BY SystemAssumption DEF Upper
  <2>2. sys.state \in RawStates /\ sys.id \in Ids
    BY <1>1, <2>1
  <2>3. self.state \in {Upper(x) : x \in RawStates}
    BY <2>2
  <2>. QED
    BY <2>2, <2>3 DEF Row
<1>. QED
  BY <1>2, <1>3 DEF NormalizePeers

LEMMA RenderTyped ==
  ASSUME NEW sys \in Snapshots, NEW n \in Nat \ {0}
  PROVE  Render(n, sys) \in Card /\ Render(n, sys).cap \in Caps
<1> DEFINE rows == NormalizePeers(sys)
<1>1. IsFiniteSet(rows)
  <2>1. IsFiniteSet(DOMAIN sys.peers)
    BY SystemAssumption
  <2>. QED
    BY <2>1, RowsFinite
<1>2. ReadyCount(sys) \in Nat /\ Cardinality(rows) \in Nat
  <2>1. IsFiniteSet({e \in rows : e.state = "READY"})
    BY <1>1, FS_Subset
  <2>. QED
    BY <1>1, <2>1, FS_CardinalityType DEF ReadyCount
<1>3. TotalPeers(sys) \in Nat /\ Threshold(sys) \in Nat
  BY <1>2 DEF TotalPeers, Threshold, NumberOr
<1>4. ClusterCapability(ReadyCount(sys), Threshold(sys), TotalPeers(sys)) \in Caps
  BY DEF ClusterCapability, Caps
<1>5. rows \subseteq Row
  BY RowsTyped
<1>. QED
  BY <1>2, <1>3, <1>4, <1>5 DEF Render, Card

\* The type invariant, with the fact Refresh needs: the page on screen
\* belongs to a visit that was counted.
SInv == TypeOK /\ (view = "system" => visit >= 1)

LEMMA SInvInductive == Spec => []SInv
<1>0. MaxLoads \in Nat /\ MaxVisits \in Nat
  BY SystemAssumption
<1>1. Init => SInv
  BY <1>0 DEF Init, SInv, TypeOK
<1>2. SInv /\ [Next]_vars => SInv'
  <2> SUFFICES ASSUME SInv, [Next]_vars PROVE SInv'
    OBVIOUS
  <2>0. Caps \subseteq Caps /\ "UNAVAILABLE" \in Caps
    BY DEF Caps
  <2>1. CASE Visit
    <3>1. /\ loads' = loads \cup {[n |-> nextLoad + 1, visit |-> visit + 1, served |-> None]}
          /\ view' = "system" /\ visit' = visit + 1 /\ visit < MaxVisits
          /\ nextLoad' = nextLoad + 1 /\ nextLoad < MaxLoads
          /\ badge' = "LOADING" /\ box' = <<>> /\ pageAlert' = None
          /\ card' = None /\ okDone' = {}
      BY <2>1 DEF Visit, StartLoad
    <3>. QED
      BY <1>0, <3>1 DEF SInv, TypeOK
  <2>2. CASE Refresh
    <3>1. /\ loads' = loads \cup {[n |-> nextLoad + 1, visit |-> visit, served |-> None]}
          /\ view = "system" /\ UNCHANGED <<view, visit, card, okDone>>
          /\ nextLoad' = nextLoad + 1 /\ nextLoad < MaxLoads
          /\ badge' = "LOADING" /\ box' = <<>> /\ pageAlert' = None
      BY <2>2 DEF Refresh, StartLoad
    <3>. QED
      BY <1>0, <3>1 DEF SInv, TypeOK
  <2>3. CASE Leave \/ OtherAlert
    <3>1. CASE Leave
      BY <3>1 DEF Leave, SInv, TypeOK
    <3>2. CASE OtherAlert
      <4>1. [kind |-> "other", visit |-> 0] \in [kind : {"danger", "other"}, visit : 0..MaxVisits]
        BY <1>0
      <4>. QED
        BY <3>2, <4>1 DEF OtherAlert, SInv, TypeOK
    <3>. QED
      BY <2>3, <3>1, <3>2
  <2>4. ASSUME NEW l \in loads, Serve(l) PROVE SInv'
    <3>1. PICK s \in Snapshots : loads' = (loads \ {l}) \cup {[l EXCEPT !.served = s]}
      BY <2>4 DEF Serve
    <3>2. [l EXCEPT !.served = s] \in [n : 1..MaxLoads, visit : 1..MaxVisits, served : Snapshots \cup {None}]
      BY DEF SInv, TypeOK
    <3>. QED
      BY <2>4, <3>1, <3>2 DEF Serve, SInv, TypeOK
  <2>5. ASSUME NEW l \in loads, Answer(l) PROVE SInv'
    <3>1. l.served \in Snapshots /\ l.n \in 1..MaxLoads
      BY <2>5 DEF Answer, SInv, TypeOK
    <3>2. Render(l.n, l.served) \in Card /\ Render(l.n, l.served).cap \in Caps
      BY <3>1, RenderTyped
    <3>3. CASE Live(l)
      <4>1. /\ card' = Render(l.n, l.served)
            /\ box' = Append(box, Render(l.n, l.served).cap)
            /\ badge' = Render(l.n, l.served).cap
            /\ okDone' = okDone \cup {l.n}
            /\ loads' = loads \ {l} /\ pageAlert' = None
            /\ UNCHANGED <<view, visit, nextLoad>>
        BY <2>5, <3>3 DEF Answer
      <4>2. box' \in Seq(Caps)
        BY <3>2, <4>1 DEF SInv, TypeOK
      <4>. QED
        BY <3>1, <3>2, <4>1, <4>2 DEF SInv, TypeOK
    <3>4. CASE ~Live(l)
      BY <2>5, <3>4 DEF Answer, SInv, TypeOK
    <3>. QED
      BY <3>3, <3>4
  <2>6. ASSUME NEW l \in loads, Fail(l) PROVE SInv'
    <3>1. l.visit \in 0..MaxVisits
      BY DEF SInv, TypeOK
    <3>. QED
      BY <2>0, <2>6, <3>1 DEF Fail, SInv, TypeOK
  <2>7. CASE UNCHANGED vars
    BY <2>7 DEF vars, SInv, TypeOK
  <2>. QED
    BY <2>1, <2>2, <2>3, <2>4, <2>5, <2>6, <2>7 DEF Next
<1>. QED
  BY <1>1, <1>2, PTL DEF Spec

(***************************************************************************)
(* Every state of the system page is well typed, for every set of answers  *)
(* and every bound: in particular the cards always hold counts and a table *)
(* of peers with ids and states, whatever totalPeers and threshold the     *)
(* server sends, and overlapping loads never number past MaxLoads.         *)
(***************************************************************************)
THEOREM SystemTypeCorrect == Spec => []TypeOK
BY SInvInductive, PTL DEF SInv
=============================================================================
